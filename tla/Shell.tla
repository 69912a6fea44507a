-------------------------------- MODULE Shell --------------------------------
(***************************************************************************)
(* The shell of the signed-in application: AppContext (the view shown, the *)
(* address bar, toasts, the lock of the page's scrolling), the command     *)
(* palette with its search and its recent targets, and the quick-action    *)
(* sheet.  A target is a view and what it narrows it to (`rest`, an id or  *)
(* a filter); a phrase written in the palette is a member of Phrases.      *)
(***************************************************************************)
EXTENDS Integers, Sequences, SequencesExt

CONSTANTS
    Targets,        \* what somebody can navigate to: records [view, rest]
    Plain,          \* the rest of a target that is a view alone
    UnsafeRests,    \* rests outside SAFE_SEGMENT, which an address cannot hold
    Phrases,        \* what is typed in the palette
    Finds,          \* [Phrases -> Seq(Targets)]: the records a phrase finds
    Offers,         \* [Phrases \cup {Untyped} -> Seq(items)]: the static commands on offer
    Untyped,        \* the empty query
    GrantedViews,   \* sets of views a session may open
    Landing,        \* the views tried, in order, as a landing view
    RECENT_MAX,     \* how many recent targets are kept
    None,           \* no fragment, no sheet, no answer
    MaxEntries,     \* bounds the browser's history
    MaxShellActs    \* bounds what happens

ASSUME ShellAssumption ==
    /\ Targets \subseteq [view : {t.view : t \in Targets}, rest : {t.rest : t \in Targets}]
    /\ None \notin [view : {t.view : t \in Targets} \cup Range(Landing) \cup {"dashboard", "messages", "finance"},
                    rest : {t.rest : t \in Targets} \cup {Plain}]
    /\ Plain \notin UnsafeRests /\ Finds \in [Phrases -> Seq(Targets)] /\ Landing \in Seq(Range(Landing))
    /\ RECENT_MAX \in Nat \ {0} /\ MaxEntries \in Nat \ {0} /\ MaxShellActs \in Nat

VARIABLES
    trail, at,      \* the browser's history: addresses [fragment, path], and which is in the bar
    mounted, shown, \* AppProvider is mounted, and the target its state holds
    granted,        \* the views the session may open
    palette, query, \* the palette is open, and its field
    told,           \* the command of words whose result is shown, as the target it leads to
    active, answer, \* the item a key acts on, and the search's last answer [key, found]
    asked,          \* searches not answered yet
    recents,        \* the stored recent targets, newest first
    action,         \* the quick action whose sheet is up
    drawer, locked, \* a drawer of the page is open; body.style.overflow is hidden
    undone,         \* history: a drawer took its lock away under an overlay
    toasts, timers, \* toasts shown, and those whose timeout is running
    ran, acted      \* history: the last record a key ran, with the query on screen; counts what happened

address == <<trail, at>>
sessionOf == <<mounted, granted>>
search == <<query, told, active, answer, asked>>
overlays == <<palette, action, drawer, locked, undone>>
toastVars == <<toasts, timers>>
shellVars == <<address, sessionOf, search, overlays, toastVars, shown, recents, ran, acted>>

QuickActions == {"student", "message", "payment"}
Home == [view |-> "dashboard", rest |-> Plain]
NoAnswer == [key |-> Untyped, found |-> <<>>]

-----------------------------------------------------------------------------
(* What the address bar says.  A fragment wins; what is unsafe is dropped. *)

formatPath(t) == [fragment |-> None, path |-> IF t.rest \in UnsafeRests THEN [t EXCEPT !.rest = Plain] ELSE t]
readTarget(location) ==
    IF location.fragment # None THEN location.fragment
    ELSE IF location.path # None THEN location.path ELSE Home
Bar == trail[at]

(* What the palette lists: recent targets and commands for an empty field, *)
(* else the records found for what is typed, then the commands it matches: *)
(* a place to go, an action with its sheet, a command of words.            *)
Record(t) == [kind |-> "record", target |-> t]
Verb(t) == [kind |-> "verb", target |-> t]
Doing(id) == [kind |-> "action", id |-> id]
Words(phrase, t) == [kind |-> "words", phrase |-> phrase, target |-> t]
useDomainSearchResults == IF answer.key = query THEN answer.found ELSE <<>>
Items == {Verb(t) : t \in Targets} \cup {Doing(id) : id \in QuickActions}
             \cup {Words(phrase, t) : phrase \in Phrases, t \in Targets}
ASSUME OffersAssumption == Offers \in [Phrases \cup {Untyped} -> Seq(Items)] /\ None \notin QuickActions
flat == IF query = Untyped THEN [i \in DOMAIN recents |-> Verb(recents[i])] \o Offers[Untyped]
        ELSE [i \in DOMAIN useDomainSearchResults |-> Record(useDomainSearchResults[i])] \o Offers[query]

(* All of a list but one of its elements.                                  *)
AllBut(s, x) ==
    LET kept[n \in 0..Len(s)] ==
            IF n = 0 THEN <<>> ELSE IF s[n] = x THEN kept[n - 1] ELSE Append(kept[n - 1], s[n])
    IN  kept[Len(s)]
pushRecentTarget(t) ==
    LET next == <<t>> \o AllBut(recents, t)
    IN IF Len(next) > RECENT_MAX THEN SubSeq(next, 1, RECENT_MAX) ELSE next

-----------------------------------------------------------------------------
Count == acted < MaxShellActs /\ acted' = acted + 1

(* The application is opened at its root, or at an old link's fragment.    *)
Entries == {[fragment |-> t, path |-> None] : t \in {None} \cup {u \in Targets : u.rest \notin UnsafeRests}}
ShellStart(entry, views) ==
    /\ trail = <<entry>> /\ at = 1 /\ mounted = FALSE /\ shown = Home /\ granted = views
    /\ palette = FALSE /\ query = Untyped /\ told = None /\ active = 1 /\ answer = NoAnswer /\ asked = {} /\ recents = <<>>
    /\ action = None /\ drawer = FALSE /\ locked = FALSE /\ undone = FALSE
    /\ toasts = <<>> /\ timers = {} /\ ran = None /\ acted = 0
ShellInit == \E entry \in Entries, views \in GrantedViews : ShellStart(entry, views)

(* A session's shell reads the address once; a fragment is migrated to the *)
(* path form on the first paint.                                           *)
Mount ==
    /\ ~mounted /\ mounted' = TRUE /\ shown' = readTarget(Bar)
    /\ trail' = IF Bar.fragment # None THEN [trail EXCEPT ![at] = formatPath(shown')] ELSE trail
    /\ UNCHANGED <<search, overlays, toastVars, at, granted, recents, ran, acted>>

(* The lock of the page behind an overlay: the shell's effect runs when the *)
(* palette or the sheet changes; a drawer's own when it closes.            *)
LockAfter(open, sheetUp) ==
    locked' = IF palette' # palette \/ action' # action THEN open \/ sheetUp ELSE IF drawer /\ ~drawer' THEN FALSE ELSE locked

(* applyTarget, which every navigation goes through: the sheet stays, and a *)
(* page's drawer goes with its page.                                        *)
applyTarget(t) ==
    /\ shown' = t /\ palette' = FALSE
    /\ drawer' = (drawer /\ t = shown)
    /\ undone' = (~palette /\ action' # None /\ (undone \/ (drawer /\ ~drawer')))
    /\ LockAfter(FALSE, action' # None)

navigate(t) ==
    /\ applyTarget(t)
    /\ IF Bar = formatPath(t) THEN UNCHANGED <<address>>
       ELSE /\ at < MaxEntries
            /\ trail' = Append(SubSeq(trail, 1, at), formatPath(t)) /\ at' = at + 1

Navigate(t) ==     \* a link of a page, the rail, the bottom bar
    /\ mounted /\ Count /\ ~palette /\ action' = action /\ navigate(t)
    /\ UNCHANGED <<search, toastVars, sessionOf, recents, ran>>

BackOrForward ==
    /\ Count /\ at' \in {at - 1, at + 1} \cap DOMAIN trail /\ trail' = trail
    /\ IF mounted THEN action' = action /\ applyTarget(readTarget(trail[at']))
       ELSE UNCHANGED <<overlays, shown>>
    /\ UNCHANGED <<search, toastVars, sessionOf, recents, ran>>

(* ViewOutlet shows a view the session may open, else a way back to one.   *)
ViewOutlet == IF shown.view \in granted THEN shown.view ELSE "denied"
LandingView == LET open == {n \in DOMAIN Landing : Landing[n] \in granted} IN IF open = {} THEN "dashboard" ELSE Landing[Min(open)]
ReturnToAllowed ==
    /\ mounted /\ Count /\ ~palette /\ action = None /\ ViewOutlet = "denied"
    /\ action' = None /\ navigate([view |-> LandingView, rest |-> Plain])
    /\ UNCHANGED <<sessionOf, search, toastVars, recents, ran>>

(* Somebody writes a fragment behind the address: hashchange.              *)
WriteFragment(t) ==
    /\ mounted /\ Count /\ at < MaxEntries /\ t.rest \notin UnsafeRests /\ Bar.fragment # t
    /\ trail' = Append(SubSeq(trail, 1, at), [Bar EXCEPT !.fragment = t]) /\ at' = at + 1
    /\ action' = action /\ applyTarget(t)
    /\ UNCHANGED <<search, toastVars, sessionOf, recents, ran>>

SignOut ==     \* AuthGate unmounts the shell; the address and the recent targets stay
    /\ mounted /\ Count /\ mounted' = FALSE
    /\ shown' = Home /\ palette' = FALSE /\ query' = Untyped /\ told' = None /\ active' = 1 /\ answer' = NoAnswer /\ asked' = {}
    /\ action' = None /\ drawer' = FALSE /\ locked' = FALSE /\ undone' = FALSE /\ toasts' = <<>>
    /\ ran' = None /\ granted' \in GrantedViews
    /\ UNCHANGED <<address, timers, recents>>

-----------------------------------------------------------------------------
(* The palette: Ctrl+K, its field, its keys.                               *)

openPalette ==
    /\ mounted /\ Count /\ ~palette /\ palette' = TRUE
    /\ query' = Untyped /\ told' = None /\ active' = 1 /\ answer' = NoAnswer /\ asked' = {}
    /\ UNCHANGED <<action, drawer>> /\ LockAfter(TRUE, TRUE) /\ undone' = FALSE
    /\ UNCHANGED <<address, toastVars, sessionOf, shown, recents, ran>>

closePalette ==
    /\ palette /\ Count /\ palette' = FALSE /\ undone' = FALSE
    /\ UNCHANGED <<action, drawer>> /\ LockAfter(FALSE, action # None)
    /\ UNCHANGED <<address, search, toastVars, sessionOf, shown, recents, ran>>

(* The query changes: the marked item is the first, and the search that    *)
(* answered another query is cancelled.                                    *)
Query(phrase) ==
    /\ query' = phrase
    /\ IF phrase = query THEN UNCHANGED <<active, asked, answer>>
       ELSE /\ active' = 1 /\ asked' = {phrase} \ {Untyped}
            /\ answer' = [key |-> phrase, found |-> IF answer.key = phrase THEN answer.found ELSE <<>>]

TypePhrase(phrase) ==
    /\ palette /\ Count /\ phrase # query /\ Query(phrase) /\ told' = None
    /\ UNCHANGED <<address, sessionOf, overlays, toastVars, shown, recents, ran>>

Backspace ==     \* back from the result of a command of words
    /\ palette /\ Count /\ told # None /\ told' = None /\ Query(Untyped)
    /\ UNCHANGED <<address, sessionOf, overlays, toastVars, shown, recents, ran>>

(* The search answers, with nothing when it failed.                        *)
SearchAnswers ==
    /\ \E key \in asked, ok \in BOOLEAN :
        /\ asked' = asked \ {key} /\ answer' = [key |-> key, found |-> IF ok THEN Finds[key] ELSE <<>>]
    /\ UNCHANGED <<address, overlays, toastVars, sessionOf, shown, query, told, active, recents, ran, acted>>

(* The arrows, Math.min(flat.length - 1, a + 1) and Math.max(0, a - 1), or *)
(* the mouse over an item.                                                 *)
ArrowKey ==
    /\ palette /\ Count /\ told = None
    /\ active' \in DOMAIN flat \cup {IF active < Len(flat) THEN active + 1 ELSE Len(flat),
                                     IF active > 1 THEN active - 1 ELSE 1}
    /\ UNCHANGED <<address, overlays, toastVars, sessionOf, shown, query, told, answer, asked, recents, ran>>

(* run: Enter on the marked item, or a click on it.                        *)
EnterKey ==
    /\ palette /\ Count /\ told = None /\ active \in DOMAIN flat
    /\ flat[active].kind \in {"record", "verb"}
    /\ recents' = pushRecentTarget(flat[active].target)
    /\ action' = action /\ navigate(flat[active].target)
    /\ ran' = IF flat[active].kind = "record" THEN [target |-> flat[active].target, query |-> query] ELSE None
    /\ UNCHANGED <<sessionOf, search, toastVars>>
EnterWords ==
    /\ palette /\ Count /\ told = None /\ active \in DOMAIN flat /\ flat[active].kind = "words"
    /\ told' = flat[active].target /\ Query(flat[active].phrase)
    /\ UNCHANGED <<address, sessionOf, overlays, toastVars, shown, recents, ran>>
EnterResult ==
    /\ palette /\ Count /\ told # None
    /\ action' = action /\ navigate(told)
    /\ UNCHANGED <<sessionOf, search, toastVars, recents, ran>>

-----------------------------------------------------------------------------
(* The quick actions, from the palette or from a page, and what they end in. *)

(* From the palette, an item on offer; else a button of a page.            *)
openSheet(id) ==
    /\ mounted /\ Count /\ action # id /\ action' = id
    /\ palette => told = None /\ active \in DOMAIN flat /\ flat[active] = Doing(id)
    /\ palette' = FALSE /\ drawer' = drawer /\ LockAfter(FALSE, TRUE) /\ undone' = FALSE
    /\ UNCHANGED <<address, search, toastVars, sessionOf, shown, recents, ran>>

closeSheet ==
    /\ action \notin {None, "message"} /\ Count /\ action' = None
    /\ UNCHANGED <<palette, drawer>> /\ LockAfter(palette, FALSE) /\ undone' = FALSE
    /\ UNCHANGED <<address, search, toastVars, sessionOf, shown, recents, ran>>

(* The message action, and the payment one, close their sheet and go.      *)
SheetGoes ==
    /\ action \in {"message", "payment"} /\ acted' = acted
    /\ action' = None
    /\ navigate([view |-> IF action = "message" THEN "messages" ELSE "finance", rest |-> Plain])
    /\ UNCHANGED <<search, toastVars, sessionOf, recents, ran>>

(* A page's drawer opens, is drawn anew, closes.                           *)
Drawer(open) ==
    /\ mounted /\ Count /\ (open \/ drawer) /\ drawer' = open /\ locked' = open
    /\ undone' = (~open /\ (palette \/ action # None))
    /\ UNCHANGED <<address, search, toastVars, sessionOf, shown, palette, recents, action, ran>>

-----------------------------------------------------------------------------
(* notify: at most three at once, each with a timeout of its own.          *)
notify ==
    /\ mounted /\ Count
    /\ toasts' = Append(SubSeq(toasts, IF Len(toasts) > 2 THEN Len(toasts) - 1 ELSE 1, Len(toasts)), acted)
    /\ timers' = timers \cup {acted}
    /\ UNCHANGED <<address, search, overlays, sessionOf, shown, recents, ran>>
ToastTimeout ==
    /\ \E id \in timers : timers' = timers \ {id} /\ toasts' = AllBut(toasts, id)
    /\ UNCHANGED <<address, search, overlays, sessionOf, shown, recents, ran, acted>>
dismissToast ==
    /\ \E id \in Range(toasts) : toasts' = AllBut(toasts, id)
    /\ UNCHANGED <<address, search, overlays, sessionOf, shown, recents, timers, ran, acted>>

ShellNext ==
    \/ Mount \/ BackOrForward \/ SignOut \/ openPalette \/ closePalette \/ SearchAnswers \/ ArrowKey
    \/ EnterKey \/ EnterWords \/ EnterResult \/ Backspace
    \/ ReturnToAllowed \/ closeSheet \/ SheetGoes \/ notify \/ ToastTimeout \/ dismissToast
    \/ \E t \in Targets : Navigate(t) \/ WriteFragment(t)
    \/ \E phrase \in Phrases \cup {Untyped} : TypePhrase(phrase)
    \/ \E id \in QuickActions : openSheet(id)
    \/ \E open \in BOOLEAN : Drawer(open)

-----------------------------------------------------------------------------
Addresses == [fragment : Targets \cup {None}, path : Targets \cup {None, Home}]
ShellTypeOK ==
    /\ at \in DOMAIN trail /\ Len(trail) <= MaxEntries + 1
    /\ mounted \in BOOLEAN /\ palette \in BOOLEAN /\ drawer \in BOOLEAN /\ locked \in BOOLEAN
    /\ query \in Phrases \cup {Untyped} /\ asked \subseteq Phrases /\ active \in Nat
    /\ action \in QuickActions \cup {None} /\ Len(recents) <= RECENT_MAX

(* The address bar tells what is shown, up to what an address cannot hold: *)
(* the reload of a page, or a link sent to a colleague, opens the same.    *)
AddressTells == mounted => readTarget(Bar) = formatPath(shown).path

(* The page behind an overlay does not scroll unless a drawer under it has *)
(* taken the lock away, and once nothing is open the page scrolls again.   *)
LockFollowsOverlays ==
    /\ palette \/ action # None => locked \/ undone
    /\ ~palette /\ action = None /\ ~drawer => ~locked

(* A record a key ran was found for the words that were on screen (I13).   *)
KeysRunWhatWasAsked == ran # None => ran.target \in Range(Finds[ran.query])

(* The recent targets are the newest ones, each once.                      *)
RecentsAreDistinct == \A i, j \in DOMAIN recents : recents[i] = recents[j] => i = j

(* No toast stays: each one shown has its timeout running.                 *)
ToastsFade == Range(toasts) \subseteq timers /\ Len(toasts) <= 3

ShellHolds == AddressTells /\ LockFollowsOverlays /\ KeysRunWhatWasAsked /\ RecentsAreDistinct /\ ToastsFade

=============================================================================
