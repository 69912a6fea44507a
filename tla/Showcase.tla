------------------------------- MODULE Showcase -------------------------------
(***************************************************************************)
(* The gallery and the library of a demo: albums, pictures and catalogue   *)
(* rows in the store of the browser, and the files they name in the media   *)
(* domain.  A row is written in one turn; the bytes of a file are put and   *)
(* removed by IndexedDB, so an upload and a deletion wait in the middle,    *)
(* and other surfaces act meanwhile.  Every surface has one busy flag: it   *)
(* runs one job at a time, the surfaces run side by side.                   *)
(***************************************************************************)
EXTENDS Naturals, Sequences, FiniteSets, Functions

CONSTANTS MaxIds,      \* ids the stores hand out
          MaxJobs,     \* jobs that operators start
          MaxUpload    \* files of one upload

ASSUME ShowcaseAssumption == MaxIds \in Nat \ 0..6 /\ MaxJobs \in Nat /\ MaxUpload \in Nat \ {0}   \* 7 ids at the start

VARIABLES
    albums,       \* id -> coverMediaId, or NoMedia
    pictures,     \* id -> [album, media, order]: rows of galleryImages
    assets,       \* ids with a media row
    catalogue,    \* id -> mediaId of a library row, or NoMedia
    uploadDialog, \* the uploader: closed, or the album it writes to
    job,          \* surface -> what it awaits
    made,         \* the last id handed out: ids grow, as createdAt does
    started,      \* jobs so far
    left,         \* media whose removal failed
    covered,      \* media that has been a cover
    crossed       \* id -> media: pictures filed while their album or file was going
showcaseVars == <<albums, pictures, assets, catalogue, uploadDialog, job, made, started, left, covered, crossed>>
galleryRows == <<albums, pictures>>

Surfaces == {"uploader", "batch", "manager", "panel", "library"}
NoMedia == 0
NoAlbum == 0
NoUpload == [open |-> FALSE, album |-> NoAlbum]

(* A job has a verb, the items still to do, the album it is about, the     *)
(* file whose bytes it stores or frees, and its counts.                    *)
Resting == [verb |-> "none", phase |-> "rest", todo |-> <<>>, album |-> NoAlbum, media |-> NoMedia,
            written |-> 0, failed |-> 0, mine |-> NoAlbum]
Begun(verb, todo, a) == [Resting EXCEPT !.verb = verb, !.phase = "next", !.todo = todo, !.album = a]
Upload == [id |-> 0, album |-> NoAlbum, media |-> NoMedia]     \* a file that has no row yet

-----------------------------------------------------------------------------
(* Who still names a file, and the order of an album.                      *)

mediaStillReferenced(m, as, ps, c) ==
    \/ \E p \in DOMAIN ps : ps[p].media = m
    \/ \E a \in DOMAIN as : as[a] = m
    \/ \E r \in DOMAIN c : c[r] = m

PicturesOf(a, ps) == {p \in DOMAIN ps : ps[p].album = a}
Before(q, p, ps) == \/ ps[q].order < ps[p].order
                    \/ ps[q].order = ps[p].order /\ q < p
Place(p, ps) == Cardinality({q \in PicturesOf(ps[p].album, ps) : Before(q, p, ps)})
Contiguous(a, ps) == [p \in DOMAIN ps |-> IF ps[p].album = a THEN [ps[p] EXCEPT !.order = Place(p, ps)] ELSE ps[p]]
Detached(p, ps) == Contiguous(ps[p].album, Restrict(ps, DOMAIN ps \ {p}))
WithRow(id, row, rows) == [x \in DOMAIN rows \union {id} |-> IF x = id THEN row ELSE rows[x]]
Filed(p, a, m, ps) == WithRow(p, [album |-> a, media |-> m, order |-> Cardinality(PicturesOf(a, ps))], ps)
Item(p) == [id |-> p, album |-> pictures[p].album, media |-> pictures[p].media]
AlbumInOrder(a) == LET s == PicturesOf(a, pictures)   \* the rows as the store keeps them: oldest first
                   IN [i \in 1..Cardinality(s) |-> Item(CHOOSE p \in s : Cardinality({q \in s : q < p}) = i - 1)]

Counts == started < MaxJobs /\ started' = started + 1
Starts(s) == job[s] = Resting /\ Counts
Fresh(n) == made + n <= MaxIds /\ made' = made + n
Going(a, m) == \E s \in Surfaces : \/ job[s].verb = "album" /\ job[s].album = a
                                   \/ job[s].phase = "freeing" /\ job[s].media = m
Stays == UNCHANGED <<albums, catalogue, uploadDialog, started, left, covered>>

-----------------------------------------------------------------------------
(* What a step asks of the media domain.  A file is freed when nothing     *)
(* names it and its row is there: the job then waits for the bytes.        *)

releaseUnreferencedMedia(j, m, as, ps, c) ==
    IF m = NoMedia \/ mediaStillReferenced(m, as, ps, c) \/ m \notin assets THEN j
    ELSE [j EXCEPT !.phase = "freeing", !.media = m]
releaseStagedMedia(j, m) == IF m \in assets THEN [j EXCEPT !.phase = "freeing", !.media = m]
                            ELSE [j EXCEPT !.phase = "next", !.media = NoMedia]

(* LocalMediaRepository.delete ends: bytes and row are gone, or the bytes  *)
(* could not be removed and both stay.                                     *)
Freed(s) ==
    /\ job[s].phase = "freeing"
    /\ assets' = assets \ {job[s].media}
    /\ job' = [job EXCEPT ![s].phase = "next", ![s].media = NoMedia]
    /\ UNCHANGED <<pictures, made, crossed>> /\ Stays
FreeingFails(s) ==
    /\ job[s].phase = "freeing"
    /\ left' = left \union {job[s].media}
    /\ job' = [job EXCEPT ![s].phase = "next", ![s].media = NoMedia]
    /\ UNCHANGED <<galleryRows, assets, catalogue, uploadDialog, made, started, covered, crossed>>

(* LocalMediaRepository.create: the row first, then the bytes.             *)
StoreBytes(s) ==
    /\ job[s].verb \in {"upload", "save"} /\ job[s].phase = "next" /\ job[s].todo # <<>>
    /\ Fresh(1)
    /\ assets' = assets \union {made'}
    /\ job' = [job EXCEPT ![s].phase = "storing", ![s].media = made']
    /\ UNCHANGED <<pictures, crossed>> /\ Stays
BytesRefused(s) ==
    /\ job[s].phase = "storing"
    /\ assets' = assets \ {job[s].media}
    /\ job' = [job EXCEPT ![s].phase = "next", ![s].media = NoMedia, ![s].todo = Tail(@), ![s].failed = @ + 1]
    /\ UNCHANGED <<pictures, made, crossed>> /\ Stays

-----------------------------------------------------------------------------
(* Uploads: the dialog of the gallery, and the panel of the settings.      *)

openUploader ==
    /\ ~uploadDialog.open /\ started < MaxJobs
    /\ uploadDialog' = [open |-> TRUE,
                        album |-> IF albums = <<>> THEN NoAlbum ELSE CHOOSE a \in DOMAIN albums : \A b \in DOMAIN albums : a <= b]
    /\ UNCHANGED <<galleryRows, assets, catalogue, job, made, started, left, covered, crossed>>
chooseAlbum(a) ==
    /\ uploadDialog.open /\ a \in DOMAIN albums \ {uploadDialog.album}
    /\ uploadDialog' = [uploadDialog EXCEPT !.album = a]
    /\ UNCHANGED <<galleryRows, assets, catalogue, job, made, started, left, covered, crossed>>
closeUploader ==
    /\ uploadDialog.open /\ uploadDialog' = NoUpload
    /\ UNCHANGED <<galleryRows, assets, catalogue, job, made, started, left, covered, crossed>>

(* submit: an album is made when none was there to choose, and a retry     *)
(* with the same dialog makes another one.                                 *)
submitUpload(n) ==
    /\ uploadDialog.open /\ Starts("uploader")
    /\ IF uploadDialog.album = NoAlbum
       THEN /\ Fresh(1) /\ albums' = WithRow(made', NoMedia, albums)
            /\ job' = [job EXCEPT !["uploader"] = [Begun("upload", [i \in 1..n |-> Upload], made') EXCEPT !.mine = made']]
       ELSE /\ UNCHANGED <<albums, made>>
            /\ job' = [job EXCEPT !["uploader"] = Begun("upload", [i \in 1..n |-> Upload], uploadDialog.album)]
    /\ UNCHANGED <<pictures, assets, catalogue, uploadDialog, left, covered, crossed>>
uploadOne(a) ==
    /\ a \in DOMAIN albums /\ Starts("panel")
    /\ job' = [job EXCEPT !["panel"] = Begun("upload", <<Upload>>, a)]
    /\ UNCHANGED <<galleryRows, assets, catalogue, uploadDialog, made, left, covered, crossed>>

(* The bytes are stored: addImage in the same turn, or, when its album has *)
(* gone, the file is freed again.                                          *)
addImage(s) ==
    LET j == job[s]  done == [j EXCEPT !.todo = Tail(@)]
    IN  /\ j.verb = "upload" /\ j.phase = "storing"
        /\ IF j.album \in DOMAIN albums
           THEN /\ Fresh(1)
                /\ pictures' = Filed(made', j.album, j.media, pictures)
                /\ crossed' = IF Going(j.album, j.media) THEN WithRow(made', j.media, crossed) ELSE crossed
                /\ job' = [job EXCEPT ![s] = [done EXCEPT !.phase = "next", !.media = NoMedia, !.written = @ + 1]]
           ELSE /\ job' = [job EXCEPT ![s] = releaseStagedMedia([done EXCEPT !.failed = @ + 1], j.media)]
                /\ UNCHANGED <<pictures, crossed, made>>
        /\ UNCHANGED assets /\ Stays

(* All files are done.  A dialog whose files all failed takes back the     *)
(* album it made; it closes when none failed.                              *)
uploadEnds(s) ==
    LET j == job[s]
    IN  /\ j.verb = "upload" /\ j.phase = "next" /\ j.todo = <<>>
        /\ IF j.failed > 0 /\ j.written = 0 /\ j.mine \in DOMAIN albums
           THEN job' = [job EXCEPT ![s] = Begun("album", AlbumInOrder(j.mine), j.mine)]
           ELSE job' = [job EXCEPT ![s] = Resting]
        /\ uploadDialog' = IF s = "uploader" /\ j.failed = 0 THEN NoUpload ELSE uploadDialog
        /\ UNCHANGED <<galleryRows, assets, catalogue, made, started, left, covered, crossed>>

-----------------------------------------------------------------------------
(* Removing and moving: one picture from the lightbox or the panel, the    *)
(* selected ones of the page, an album with its pictures.                  *)

removePicture(p) ==
    /\ p \in DOMAIN pictures /\ Starts("panel")
    /\ job' = [job EXCEPT !["panel"] = Begun("delete", <<Item(p)>>, NoAlbum)]
    /\ UNCHANGED <<galleryRows, assets, catalogue, uploadDialog, made, left, covered, crossed>>
runBatch(verb, ps, a) ==
    /\ ps # {} /\ ps \subseteq DOMAIN pictures /\ Starts("batch")
    /\ \E todo \in {f \in [1..Cardinality(ps) -> {Item(p) : p \in ps}] : \A i, k \in DOMAIN f : f[i] = f[k] => i = k} :
           job' = [job EXCEPT !["batch"] = Begun(verb, todo, a)]
    /\ UNCHANGED <<galleryRows, assets, catalogue, uploadDialog, made, left, covered, crossed>>
deleteAlbum(a) ==
    /\ a \in DOMAIN albums /\ Starts("manager")
    /\ job' = [job EXCEPT !["manager"] = Begun("album", AlbumInOrder(a), a)]
    /\ UNCHANGED <<galleryRows, assets, catalogue, uploadDialog, made, left, covered, crossed>>

Next1(s, verb) == job[s].verb = verb /\ job[s].phase = "next" /\ job[s].todo # <<>>
Done1(s) == [job[s] EXCEPT !.todo = Tail(@), !.written = @ + 1]
Failed1(s) == [job[s] EXCEPT !.todo = Tail(@), !.failed = @ + 1]

removeImage(s) ==
    LET i == Head(job[s].todo)
    IN  /\ Next1(s, "delete")
        /\ IF i.id \in DOMAIN pictures
           THEN /\ pictures' = Detached(i.id, pictures)
                /\ job' = [job EXCEPT ![s] = releaseUnreferencedMedia(Done1(s), i.media, albums, pictures', catalogue)]
           ELSE job' = [job EXCEPT ![s] = Failed1(s)] /\ UNCHANGED pictures
        /\ UNCHANGED <<assets, made, crossed>> /\ Stays

(* A move files the picture in its new album and then removes the old row: *)
(* a row somebody removed meanwhile is filed anew, and counted as failed.  *)
moveImage(s) ==
    LET i == Head(job[s].todo)  a == job[s].album
    IN  /\ Next1(s, "move")
        /\ CASE i.album = a -> job' = [job EXCEPT ![s].todo = Tail(@)] /\ UNCHANGED <<pictures, made, crossed>>
             [] i.album # a /\ (a \notin DOMAIN albums \/ i.media \notin assets) ->
                    job' = [job EXCEPT ![s] = Failed1(s)] /\ UNCHANGED <<pictures, made, crossed>>
             [] i.album # a /\ a \in DOMAIN albums /\ i.media \in assets ->
                    /\ Fresh(1)
                    /\ LET filed == Filed(made', a, i.media, pictures)
                       IN IF i.id \in DOMAIN pictures
                          THEN pictures' = Detached(i.id, filed) /\ job' = [job EXCEPT ![s] = Done1(s)]
                          ELSE pictures' = filed /\ job' = [job EXCEPT ![s] = Failed1(s)]
                    /\ crossed' = IF Going(a, i.media) THEN WithRow(made', i.media, crossed) ELSE crossed
        /\ UNCHANGED assets /\ Stays

(* deleteAlbum goes on: a row of the list it took at the beginning, and    *)
(* the album when none is left.                                            *)
removeOfAlbum(s) ==
    LET i == Head(job[s].todo)
    IN  /\ Next1(s, "album")
        /\ pictures' = Restrict(pictures, DOMAIN pictures \ {i.id})
        /\ job' = [job EXCEPT ![s] = releaseUnreferencedMedia(Done1(s), i.media, albums, pictures', catalogue)]
        /\ UNCHANGED <<assets, made, crossed>> /\ Stays
albumRemoved(s) ==
    /\ job[s].verb = "album" /\ job[s].phase = "next" /\ job[s].todo = <<>>
    /\ albums' = Restrict(albums, DOMAIN albums \ {job[s].album})
    /\ job' = [job EXCEPT ![s] = Resting]
    /\ UNCHANGED <<pictures, assets, catalogue, uploadDialog, made, started, left, covered, crossed>>
listEnds(s) ==
    /\ job[s].verb \in {"delete", "move"} /\ job[s].phase = "next" /\ job[s].todo = <<>>
    /\ job' = [job EXCEPT ![s] = Resting]
    /\ UNCHANGED <<galleryRows, assets, catalogue, uploadDialog, made, started, left, covered, crossed>>

-----------------------------------------------------------------------------
(* What takes one turn: an album made, a cover chosen, a picture put       *)
(* elsewhere in its album.                                                 *)

createAlbum ==
    /\ Counts /\ Fresh(1)
    /\ albums' = WithRow(made', NoMedia, albums)
    /\ UNCHANGED <<pictures, assets, catalogue, uploadDialog, job, left, covered, crossed>>
setAlbumCover(p) ==
    /\ p \in DOMAIN pictures /\ pictures[p].album \in DOMAIN albums /\ Counts
    /\ albums' = [albums EXCEPT ![pictures[p].album] = pictures[p].media]
    /\ covered' = covered \union {pictures[p].media}
    /\ UNCHANGED <<pictures, assets, catalogue, uploadDialog, job, made, left, crossed>>
reorderImage(p, n) ==
    /\ p \in DOMAIN pictures /\ n < Cardinality(PicturesOf(pictures[p].album, pictures)) /\ Counts
    /\ LET others == Restrict(pictures, DOMAIN pictures \ {p})
           place(q) == IF q = p THEN n ELSE IF Place(q, others) < n THEN Place(q, others) ELSE Place(q, others) + 1
       IN pictures' = [q \in DOMAIN pictures |->
                          IF pictures[q].album = pictures[p].album THEN [pictures[q] EXCEPT !.order = place(q)] ELSE pictures[q]]
    /\ UNCHANGED <<albums, assets, catalogue, uploadDialog, job, made, left, covered, crossed>>

-----------------------------------------------------------------------------
(* The library: a row is registered without a file, or one is registered  *)
(* (r = 0) or corrected with a new file.                                   *)

registerItem ==
    /\ job["library"] = Resting /\ Counts /\ Fresh(1)
    /\ catalogue' = WithRow(made', NoMedia, catalogue)
    /\ UNCHANGED <<galleryRows, assets, uploadDialog, job, left, covered, crossed>>
submitItem(r) ==
    /\ r \in DOMAIN catalogue \union {0} /\ Starts("library")
    /\ job' = [job EXCEPT !["library"] = Begun("save", <<[Upload EXCEPT !.id = r]>>, NoAlbum)]
    /\ UNCHANGED <<galleryRows, assets, catalogue, uploadDialog, made, left, covered, crossed>>
(* The row is written and the file it carried is freed, unless it is named *)
(* elsewhere.                                                              *)
saveItem ==
    LET j == job["library"]  r == Head(j.todo).id  m == j.media
        ends == [Resting EXCEPT !.verb = "save", !.phase = "next"]
    IN  /\ j.verb = "save" /\ j.phase = "storing"
        /\ IF r = 0
           THEN Fresh(1) /\ catalogue' = WithRow(made', m, catalogue) /\ job' = [job EXCEPT !["library"] = ends]
           ELSE /\ catalogue' = [catalogue EXCEPT ![r] = m]
                /\ job' = [job EXCEPT !["library"] = releaseUnreferencedMedia(ends, catalogue[r], albums, pictures, catalogue')]
                /\ UNCHANGED made
        /\ UNCHANGED <<galleryRows, assets, uploadDialog, started, left, covered, crossed>>
(* The teacher or the instrument of the form has gone: the new file too.   *)
saveRefused ==
    LET j == job["library"]
    IN  /\ j.verb = "save" /\ j.phase = "storing"
        /\ job' = [job EXCEPT !["library"] = releaseStagedMedia([Resting EXCEPT !.verb = "save"], j.media)]
        /\ UNCHANGED <<pictures, assets, made, crossed>> /\ Stays
itemEnds ==
    /\ job["library"].verb = "save" /\ job["library"].phase = "next" /\ job["library"].todo = <<>>
    /\ job' = [job EXCEPT !["library"] = Resting]
    /\ UNCHANGED <<galleryRows, assets, catalogue, uploadDialog, made, started, left, covered, crossed>>

-----------------------------------------------------------------------------
(* An empty gallery, or two albums, two pictures and a row of the library  *)
(* with the file of one of them.                                           *)
ShowcaseStart(as, ps, c, ms, n) ==
    /\ albums = as /\ pictures = ps /\ catalogue = c /\ assets = ms /\ made = n
    /\ uploadDialog = NoUpload /\ job = [s \in Surfaces |-> Resting]
    /\ started = 0 /\ left = {} /\ crossed = <<>>
    /\ covered = {as[a] : a \in DOMAIN as} \ {NoMedia}
At1(a, m, k) == [album |-> a, media |-> m, order |-> k]
ShowcaseInit ==
    \/ ShowcaseStart(<<>>, <<>>, <<>>, {}, 0)
    \/ ShowcaseStart([a \in {1, 2} |-> NoMedia], [p \in {5, 6} |-> At1(1, p - 2, p - 5)], [r \in {7} |-> 4], {3, 4}, 7)

ShowcaseNext ==
    \/ \E s \in Surfaces : \/ Freed(s) \/ FreeingFails(s) \/ StoreBytes(s) \/ BytesRefused(s) \/ addImage(s)
                           \/ uploadEnds(s) \/ removeImage(s) \/ moveImage(s) \/ removeOfAlbum(s) \/ albumRemoved(s) \/ listEnds(s)
    \/ openUploader \/ closeUploader \/ createAlbum \/ registerItem \/ saveItem \/ saveRefused \/ itemEnds
    \/ \E n \in 1..MaxUpload : submitUpload(n)
    \/ \E a \in DOMAIN albums : chooseAlbum(a) \/ uploadOne(a) \/ deleteAlbum(a)
    \/ \E ps \in SUBSET DOMAIN pictures : \/ runBatch("delete", ps, NoAlbum)
                                          \/ \E a \in DOMAIN albums : runBatch("move", ps, a)
    \/ \E p \in DOMAIN pictures : \/ removePicture(p) \/ setAlbumCover(p)
                                  \/ \E n \in 0..Cardinality(DOMAIN pictures) : reorderImage(p, n)
    \/ \E r \in DOMAIN catalogue \union {0} : submitItem(r)
ShowcaseSpec == ShowcaseInit /\ [][ShowcaseNext]_showcaseVars

ShowcaseTypeOK ==
    LET Ids == 0..MaxIds
        Items == [id : Ids, album : Ids, media : Ids]
    IN  /\ \A f \in {albums, catalogue} : DOMAIN f \subseteq Ids /\ \A x \in DOMAIN f : f[x] \in Ids
        /\ DOMAIN pictures \subseteq Ids /\ \A p \in DOMAIN pictures : pictures[p] \in [album : Ids, media : Ids, order : Nat]
        /\ assets \union left \union covered \union DOMAIN crossed \subseteq Ids
        /\ uploadDialog \in [open : BOOLEAN, album : Ids]
        /\ \A s \in Surfaces : /\ job[s].verb \in {"none", "upload", "save", "delete", "move", "album"}
                               /\ job[s].phase \in {"rest", "next", "storing", "freeing"}
                               /\ \A i \in DOMAIN job[s].todo : job[s].todo[i] \in Items
        /\ made \in Ids /\ started \in 0..MaxJobs

-----------------------------------------------------------------------------
(* What a picture, a cover or a row of the library shows is still there,   *)
(* whatever was freed on the way: only a file that was filed again while   *)
(* another surface removed it can be lost, and be missed as a cover.       *)
ShownFilesStay ==
    LET risked == {crossed[p] : p \in DOMAIN crossed}
        shown == {pictures[p].media : p \in DOMAIN pictures} \union {albums[a] : a \in DOMAIN albums}
                     \union {catalogue[r] : r \in DOMAIN catalogue}
    IN shown \subseteq assets \union {NoMedia} \union risked

(* When every surface rests, no file is left that nothing names, unless    *)
(* its removal failed or it was the cover of an album.                     *)
NoFileIsForgotten ==
    (\A s \in Surfaces : job[s] = Resting) =>
        \A m \in assets \ (left \union covered) : mediaStillReferenced(m, albums, pictures, catalogue)

(* The pictures of an album stand at 0, 1, 2, ...: the next one is filed   *)
(* at the end and an index of the page is a position.                      *)
AlbumsAreContiguous ==
    \A a \in DOMAIN albums :
        (\A s \in Surfaces : job[s].verb # "album" \/ job[s].album # a) =>
            {pictures[p].order : p \in PicturesOf(a, pictures)} = 0..(Cardinality(PicturesOf(a, pictures)) - 1)

(* A batch, with all that happens beside it, shows no file twice and       *)
(* leaves no picture without an album, but one that was filed while its    *)
(* album was being deleted.                                                *)
PicturesAreFiledOnce ==
    /\ \A p, q \in DOMAIN pictures : pictures[p].media = pictures[q].media => p = q
    /\ \A p \in DOMAIN pictures \ DOMAIN crossed : pictures[p].album \in DOMAIN albums

ShowcaseHolds == ShownFilesStay /\ NoFileIsForgotten /\ AlbumsAreContiguous /\ PicturesAreFiledOnce

=============================================================================
