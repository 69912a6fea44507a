------------------------------ MODULE MCBrowser ------------------------------
(***************************************************************************)
(* What a browser keeps, for TLC: the signed-in session of its tabs, the   *)
(* demo environment, the brake of the sign-in form, the role matrix and the *)
(* accounts, and the records of the demo's repositories: ladders,          *)
(* repertoire, the academy, the gallery with the library; the import       *)
(* wizard; the shell of the pages; and the files of the sample dataset,    *)
(* made at a developer's desk.  In each behaviour one of them is used, the *)
(* others rest: they share no state.                                       *)
(***************************************************************************)
EXTENDS ClientSession, DemoEnvironment, LoginThrottle, LearningLadder, Repertoire, Academy, Access, Artifact, StudentImport, Shell, Showcase, MakeupDesk, TLC

CONSTANTS
    i1, i2, i3,            \* ids of records
    v1, v2,                \* bytes of a photo, and ids of media no source has
    Ann, Sum               \* a cell that is a name, and one that is a formula

VARIABLE part   \* what is used

browserVars == <<part, sessionVars, demoVars, throttleVars, ladderVars, repertoireVars, academyVars, accessVars,
                 artifactVars, importVars, shellVars, showcaseVars, deskVars>>

(* Versions of the source: a member more, rows less, an incoherent seed, a *)
(* media row without bytes.                                                *)
Seed == [students |-> {1}, media |-> {i1, i2}]
Version(dataset, coherent) == [names |-> DOMAIN dataset, dataset |-> dataset, coherent |-> coherent]
MCBuilds ==
    {Version(Seed, TRUE), Version([students |-> {1, 2}, media |-> {i1}], TRUE),
     Version([Seed EXCEPT !.students = {}], FALSE), Version([Seed EXCEPT !.media = {i1, v1}], TRUE),
     Version([students |-> {1}, media |-> {i1, i2}, invoices |-> {}], TRUE)}

(* A workbook with a teacher, a text with a number twice and a formula     *)
(* that no line break ends and one that ends, and no spreadsheet at all.   *)
SheetRow(id, who, mentor) == [nationalId |-> id, name |-> who, teacher |-> mentor]
Faulty == <<SheetRow(i1, Ann, Empty), SheetRow(i1, Ann, Empty), SheetRow(i2, Sum, Empty)>>
MCFiles ==
    {[format |-> "xlsx", ends |-> FALSE, rows |-> <<SheetRow(i1, Ann, Ann), SheetRow(i2, Ann, Empty)>>],
     [format |-> "csv", ends |-> FALSE, rows |-> Faulty], [format |-> "csv", ends |-> TRUE, rows |-> Faulty],
     [format |-> "neither", ends |-> TRUE, rows |-> <<>>]}

(* Views with and without a record, and a filter no address can hold.      *)
At(view, rest) == [view |-> view, rest |-> rest]
MCTargets == {At("schedule", Plain), At("schedule", v2), At("students", i1), At("messages", Plain), At("finance", Plain)}
MCLanding == <<"dashboard", "students", "schedule", "finance", "messages">>
MCFinds == (i2 :> <<At("students", i1)>>) @@ (i3 :> <<>>)
MCOffers == (Untyped :> <<Verb(At("schedule", Plain)), Doing("message"), Words(i3, At("students", i1))>>)
            @@ (i2 :> <<Verb(At("finance", Plain)), Doing("student")>>) @@ (i3 :> <<>>)

DemoRests == DemoInit /\ disk = Start("none", NoData)
LadderRests == /\ program = {} /\ level = <<>> /\ content = <<>> /\ link = {} /\ placement = <<>> /\ spent = {}
               /\ writes = 0 /\ panel = [program |-> i1, rows |-> <<>>, open |-> Nothing]
(* The sample's rows name the student and the room: of the second ones,    *)
(* and of classes and teachers, only what was written since is an orphan.  *)
MCSample == SampleRows({"s1"}, {}, {"r1"}, {})
AcademyRests == /\ student = <<>> /\ teacher = <<>> /\ room = <<>> /\ class = <<>> /\ seat = <<>> /\ user = <<>>
                /\ instrument = <<>> /\ lesson = <<>> /\ debt = <<>> /\ score = <<>>
                /\ practice = <<>> /\ logged = {} /\ seeded = MCSample /\ passphrase = {} /\ reopened = {} /\ used = {} /\ changes = 0

ArtifactRests == /\ source = <<>> /\ photo = <<>> /\ dir = <<>>
                 /\ writing = NotWriting /\ lastRun = NoReport /\ damages = 0

(* A part that is not under way has no state to speak of.                  *)
ImportRests ==
    /\ enrolled = <<>> /\ step = <<>> /\ sheet = <<>> /\ mapping = <<>> /\ report = <<>> /\ result = <<>>
    /\ atomic = <<>> /\ parseError = <<>> /\ busy = <<>> /\ wizard = <<>> /\ ops = <<>> /\ turned = <<>>
    /\ twice = <<>> /\ committed = <<>> /\ born = <<>> /\ count = <<>>
ShellRests ==
    /\ trail = <<>> /\ at = <<>> /\ mounted = <<>> /\ shown = <<>> /\ granted = <<>> /\ palette = <<>>
    /\ query = <<>> /\ told = <<>> /\ active = <<>> /\ answer = <<>> /\ asked = <<>> /\ recents = <<>>
    /\ action = <<>> /\ drawer = <<>> /\ locked = <<>> /\ undone = <<>> /\ toasts = <<>> /\ timers = <<>>
    /\ ran = <<>> /\ acted = <<>>
ShowcaseRests ==
    /\ albums = <<>> /\ pictures = <<>> /\ assets = <<>> /\ catalogue = <<>> /\ uploadDialog = <<>> /\ job = <<>>
    /\ made = <<>> /\ started = <<>> /\ left = <<>> /\ covered = <<>> /\ crossed = <<>>
MakeupDeskRests ==
    /\ diary = <<>> /\ promises = <<>> /\ followed = <<>> /\ lookups = <<>> /\ narrowed = <<>> /\ openId = <<>>
    /\ decision = <<>> /\ behind = <<>> /\ strayed = <<>> /\ verbs = <<>> /\ misses = <<>> /\ views = <<>>

BrowserInit ==
    /\ part \in {"session", "demo", "login", "ladder", "repertoire", "academy", "access", "artifact", "import", "shell", "showcase", "makeups"}
    /\ SessionInit /\ ThrottleInit /\ RepertoireStart(i1)
    /\ AccessInit /\ (served => part = "access")
    /\ IF part = "demo" THEN DemoInit ELSE DemoRests
    /\ IF part = "ladder" THEN LadderStart(i1, i2, i3, i1, i2, i1, i1) ELSE LadderRests
    /\ IF part = "academy" THEN AcademyStart("s1", "t1", "r1", "c1", "u1", "i1", "e1", "d1", "n1", "p1", "k1", "m1", MCSample) ELSE AcademyRests
    /\ IF part = "artifact" THEN ArtifactInit ELSE ArtifactRests
    /\ IF part = "shell" THEN ShellInit ELSE ShellRests
    /\ IF part = "showcase" THEN ShowcaseInit ELSE ShowcaseRests
    /\ IF part = "makeups" THEN MakeupDeskInit ELSE MakeupDeskRests
    /\ IF part = "import" THEN ImportInit ELSE ImportRests
BrowserNext ==
    \/ /\ part = "session" /\ SessionNext
       /\ UNCHANGED <<part, demoVars, throttleVars, ladderVars, repertoireVars, academyVars, accessVars, artifactVars, importVars, shellVars, showcaseVars, deskVars>>
    \/ /\ part = "demo" /\ DemoNext
       /\ UNCHANGED <<part, sessionVars, throttleVars, ladderVars, repertoireVars, academyVars, accessVars, artifactVars, importVars, shellVars, showcaseVars, deskVars>>
    \/ /\ part = "login" /\ ThrottleNext
       /\ UNCHANGED <<part, sessionVars, demoVars, ladderVars, repertoireVars, academyVars, accessVars, artifactVars, importVars, shellVars, showcaseVars, deskVars>>
    \/ /\ part = "ladder" /\ LadderNext
       /\ UNCHANGED <<part, sessionVars, demoVars, throttleVars, repertoireVars, academyVars, accessVars, artifactVars, importVars, shellVars, showcaseVars, deskVars>>
    \/ /\ part = "repertoire" /\ RepertoireNext
       /\ UNCHANGED <<part, sessionVars, demoVars, throttleVars, ladderVars, academyVars, accessVars, artifactVars, importVars, shellVars, showcaseVars, deskVars>>
    \/ /\ part = "academy" /\ AcademyNext
       /\ UNCHANGED <<part, sessionVars, demoVars, throttleVars, ladderVars, repertoireVars, accessVars, artifactVars, importVars, shellVars, showcaseVars, deskVars>>
    \/ /\ part = "access" /\ AccessNext
       /\ UNCHANGED <<part, sessionVars, demoVars, throttleVars, ladderVars, repertoireVars, academyVars, artifactVars, importVars, shellVars, showcaseVars, deskVars>>
    \/ /\ part = "artifact" /\ ArtifactNext
       /\ UNCHANGED <<part, sessionVars, demoVars, throttleVars, ladderVars, repertoireVars, academyVars, accessVars, importVars, shellVars, showcaseVars, deskVars>>
    \/ /\ part = "import" /\ ImportNext
       /\ UNCHANGED <<part, sessionVars, demoVars, throttleVars, ladderVars, repertoireVars, academyVars, accessVars, artifactVars, shellVars, showcaseVars, deskVars>>
    \/ /\ part = "shell" /\ ShellNext
       /\ UNCHANGED <<part, sessionVars, demoVars, throttleVars, ladderVars, repertoireVars, academyVars, accessVars, artifactVars, importVars, showcaseVars, deskVars>>
    \/ /\ part = "showcase" /\ ShowcaseNext
       /\ UNCHANGED <<part, sessionVars, demoVars, throttleVars, ladderVars, repertoireVars, academyVars, accessVars, artifactVars, importVars, shellVars, deskVars>>
    \/ /\ part = "makeups" /\ MakeupDeskNext
       /\ UNCHANGED <<part, sessionVars, demoVars, throttleVars, ladderVars, repertoireVars, academyVars, accessVars, artifactVars, importVars, shellVars, showcaseVars>>
BrowserSpec == BrowserInit /\ [][BrowserNext]_browserVars

(* The state of the part in use stays within its type.                     *)
StateTypeOK ==
    CASE part = "session" -> SessionTypeOK [] part = "demo" -> DemoTypeOK [] part = "login" -> ThrottleTypeOK
      [] part = "ladder" -> LadderTypeOK [] part = "repertoire" -> RepertoireTypeOK [] part = "academy" -> AcademyTypeOK
      [] part = "access" -> AccessTypeOK [] part = "artifact" -> ArtifactTypeOK [] part = "import" -> ImportTypeOK
      [] part = "shell" -> ShellTypeOK [] part = "showcase" -> ShowcaseTypeOK [] part = "makeups" -> MakeupDeskTypeOK


-----------------------------------------------------------------------------
(* Tabs and windows have the same names: one exchange fits both.           *)
Symmetric == Permutations(Tabs)

=============================================================================
