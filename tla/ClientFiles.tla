---------------------------- MODULE ClientFiles ----------------------------
(***************************************************************************)
(* The file browser of the client: its tabs (static-src/files.ts and       *)
(* files-state.ts), find in files (files-search.ts over search-shell.ts),  *)
(* the attachment picker (files-picker.ts), file requests                  *)
(* (actions/files.ts) and uploads (upload.ts, upload-policy.ts).  Every    *)
(* tab keeps a place of its own; one list, one toolbar and one read in     *)
(* flight serve them all, and what an answer does it does to the tab that  *)
(* is bound when it arrives.  A path is the sequence of its names.         *)
(***************************************************************************)
EXTENDS Integers, Sequences, SequencesExt, FiniteSets

CONSTANTS
    Names,          \* the names of files and folders, in the order of the listing
    Tree,           \* the folders at the start, as paths
    Files,          \* the files at the start, as paths
    Browsers,       \* the folders browser tabs are opened at
    ReadOnly,       \* folders that cannot be written
    MaxTotal,       \* the bytes and the files one upload may hold
    MaxFiles,
    Picks,          \* what the reader may pick to upload: sequences of [name, size]
    FileScenarios   \* budgets of what may happen

VARIABLES
    fl,      \* the page: tabs, the list and its rows, reads, requests, find, picker, upload strip
    fldisk,  \* the folders and the files there are
    flleft   \* what may still happen

flvars == <<fl, fldisk, flleft>>

Root == <<>>
None == "none"
NewName == "new"

Spend(what) == flleft[what] > 0 /\ flleft' = [flleft EXCEPT ![what] = @ - 1]

JoinPath(base, name) == Append(base, name)

ParentPath(p) == IF p = Root THEN Root ELSE Front(p)

\* Doubled and outer slashes are empty names; a lone dot is the root.
NormalizeDirPath(raw) ==
    LET p == SelectSeq(raw, LAMBDA n : n # "") IN IF p = <<".">> THEN Root ELSE p

Under(p, dir) == Len(p) > Len(dir) /\ SubSeq(p, 1, Len(dir)) = dir

Entries(dir) ==
    {[name |-> Last(p), isDir |-> p \in fldisk.dirs] :
        p \in {q \in fldisk.dirs \cup fldisk.files : q # Root /\ Front(q) = dir}}

Place(name) == CHOOSE i \in DOMAIN Names : Names[i] = name

\* Folders first, then by name.
SortEntries(entries) ==
    SetToSortSeq(entries, LAMBDA a, b : IF a.isDir = b.isDir THEN Place(a.name) < Place(b.name) ELSE a.isDir)

-----------------------------------------------------------------------------
(* One tab's place: FileBrowserState.                                      *)

NewBrowser(at) ==
    [path |-> at, history |-> <<at>>, idx |-> 1, selected |-> {}, last |-> None, entries |-> {},
     answered |-> FALSE, writable |-> TRUE, sorted |-> <<>>, scrolled |-> FALSE, restore |-> TRUE]

Moved(s, idx) ==
    [s EXCEPT !.idx = idx, !.path = s.history[idx], !.scrolled = FALSE, !.selected = {}, !.last = None]

\* What lay forward of the place is gone.
NavigateIn(s, path) ==
    LET h == Append(SubSeq(s.history, 1, s.idx), path)
    IN  [Moved([s EXCEPT !.history = h], Len(h)) EXCEPT !.answered = FALSE]

GoBackIn(s) == IF s.idx > 1 THEN Moved(s, s.idx - 1) ELSE s

GoForwardIn(s) == IF s.idx < Len(s.history) THEN Moved(s, s.idx + 1) ELSE s

\* A document history entry that is the tab's own neighbour moves along its history.
PointTo(s, dir) ==
    IF dir = s.path THEN s
    ELSE IF s.idx > 1 /\ s.history[s.idx - 1] = dir THEN GoBackIn(s)
    ELSE IF s.idx < Len(s.history) /\ s.history[s.idx + 1] = dir THEN GoForwardIn(s)
    ELSE NavigateIn(s, dir)

\* The folder the tab stood at cannot be read: back to the root, once.
Reset(s) == [NewBrowser(Root) EXCEPT !.restore = FALSE]

-----------------------------------------------------------------------------
(* The list: one box of rows for the tab that is bound.                    *)

\* With no tab bound the place is a throw-away one.
Cur(f) == IF f.bound = <<>> THEN NewBrowser(Root) ELSE f.tabs[f.bound[1]][1]

InCur(f, s) == IF f.bound = <<>> THEN f ELSE [f EXCEPT !.tabs[f.bound[1]] = <<s>>]

StateFor(f, ref) == IF f.tabs[ref] # <<>> THEN f ELSE [f EXCEPT !.tabs[ref] = <<NewBrowser(NormalizeDirPath(ref))>>]

RowNames(f) == {r.name : r \in f.rows}
RowOf(f, n) == CHOOSE r \in f.rows : r.name = n
SetRow(f, r) == [f EXCEPT !.rows = {q \in @ : q.name # r.name} \cup {r}]

EntryRow(e) == [name |-> e.name, isDir |-> e.isDir, wired |-> TRUE, typed |-> None, exiting |-> FALSE]

\* Rows are kept by their name alone, whatever folder they were mounted for; the row of an
\* earlier error stays with them.
RenderList(f) ==
    LET s == Cur(f)
        rows == {r \in f.rows : \E e \in s.entries : e.name = r.name}
                    \cup {EntryRow(e) : e \in {d \in s.entries : d.name \notin RowNames(f)}}
        sorted == [i \in DOMAIN SortEntries(s.entries) |-> SortEntries(s.entries)[i].name]
    IN  InCur([f EXCEPT !.rows = rows], [s EXCEPT !.sorted = sorted])

ShowError(f) == [f EXCEPT !.rows = {}, !.error = TRUE]

\* A rename opens on the row of that name in the list as it is.
StartInlineRename(f, name) ==
    IF name \in RowNames(f) /\ RowOf(f, name).typed = None
    THEN SetRow(f, [RowOf(f, name) EXCEPT !.typed = name]) ELSE f

\* A mutant of Superseded: the read before goes on.
SupersededNever(f) == f

\* A create's read that is given up still opens the rename of what was created.
Superseded(f) ==
    LET g == [f EXCEPT !.reads = <<>>]
    IN  IF \E i \in DOMAIN f.reads : f.reads[i].kind = "create" THEN StartInlineRename(g, NewName) ELSE g

\* fetchDir: one read at a time, of the place the bound tab is at when it is asked for.
FetchDir(f, kind) ==
    LET g == Superseded(f)
    IN  [g EXCEPT !.reads = Append(@, [kind |-> kind, path |-> Cur(g).path, st |-> "out", ok |-> FALSE, files |-> {}])]

LoadDir(f) == FetchDir(f, "load")

LoadDirAsync(f) == FetchDir(f, "create")

\* The answer is written into whichever tab is bound.
Listed(f, r) ==
    LET g == InCur(f, [Cur(f) EXCEPT !.entries = r.files, !.answered = TRUE, !.writable = r.path \notin ReadOnly,
                                     !.restore = IF r.kind = "load" THEN FALSE ELSE @])
    IN  RenderList(g)

LoadFailed(f) ==
    IF Cur(f).restore /\ Cur(f).path # Root THEN LoadDir(InCur(f, Reset(Cur(f))))
    ELSE ShowError(InCur(f, [Cur(f) EXCEPT !.entries = {}, !.writable = FALSE]))

\* A create's read that fails says nothing, and the rename opens all the same.
ReadAnswered(f, r, ok) ==
    LET g == [f EXCEPT !.reads = SelectSeq(@, LAMBDA q : q # r)]
    IN  IF r.kind = "load" THEN (IF ok THEN Listed(g, r) ELSE LoadFailed(g))
        ELSE StartInlineRename(IF ok THEN Listed(g, r) ELSE g, NewName)

\* What the page has no way to know of: kept to say what the list owes.
Unheard(f, dir) == [f EXCEPT !.unheard = @ \cup {dir}]

ReadServed(r) ==
    /\ r.st = "out"
    /\ fl' = [fl EXCEPT !.reads = [i \in DOMAIN @ |-> IF @[i] = r
                                      THEN [r EXCEPT !.st = "served", !.ok = r.path \in fldisk.dirs, !.files = Entries(r.path)]
                                      ELSE @[i]],
                        !.unheard = @ \ {r.path}]
    /\ UNCHANGED <<fldisk, flleft>>

ReadArrives(r) ==
    \/ r.st = "served" /\ UNCHANGED <<fldisk, flleft>>
       /\ fl' = ReadAnswered(IF r.ok THEN fl ELSE Unheard(fl, r.path), r, r.ok)
    \/ Spend("fails") /\ fl' = ReadAnswered(Unheard(fl, r.path), r, FALSE) /\ UNCHANGED fldisk

Reads == \E i \in DOMAIN fl.reads : ReadServed(fl.reads[i]) \/ ReadArrives(fl.reads[i])

-----------------------------------------------------------------------------
(* Tabs.                                                                   *)

\* closeFilesSearch and resetFilesSearch.
CloseFilesSearch(f) ==
    IF f.find.open THEN [f EXCEPT !.find.open = FALSE, !.find.owner = <<>>, !.find.timer = FALSE,
                                  !.find.out = <<>>, !.find.hits = {}, !.find.note = None] ELSE f

ResetFilesSearch(f) == [CloseFilesSearch(f) EXCEPT !.find.q = None, !.find.owner = <<>>]

\* A tab that comes to the front: another tab's search goes with it.
TabChanged(f, to) ==
    LET g == [f EXCEPT !.active = to]
    IN  IF f.active # to /\ f.find.owner \notin {<<>>, to} THEN ResetFilesSearch(g) ELSE g

\* The switch paints the tab's own last entries at once.
BindFilesTab(f, ref) ==
    LET g == [StateFor(f, ref) EXCEPT !.bound = <<ref>>]
        h == IF f.bound = <<ref>> THEN f ELSE RenderList(g)
    IN  [h EXCEPT !.scrolled = Cur(h).scrolled]

ShowFilesTab(f, ref) == LoadDir(BindFilesTab(f, ref))

Activates(ref) ==
    /\ fl.active # <<ref>> /\ Spend("tabs") /\ UNCHANGED fldisk
    /\ fl' = ShowFilesTab(TabChanged(fl, <<ref>>), ref)

Leaves == fl.active # <<>> /\ Spend("tabs") /\ fl' = TabChanged(fl, <<>>) /\ UNCHANGED fldisk

ReleaseFilesTab(f, ref) ==
    LET g == [f EXCEPT !.tabs[ref] = <<>>]
    IN  IF f.bound # <<ref>> THEN g
        ELSE [ResetFilesSearch([g EXCEPT !.bound = <<>>]) EXCEPT !.rows = {}, !.error = FALSE]

Closes(ref) ==
    /\ fl.tabs[ref] # <<>> /\ Spend("tabs") /\ UNCHANGED fldisk
    /\ fl' = ReleaseFilesTab(TabChanged(fl, IF fl.active = <<ref>> THEN <<>> ELSE fl.active), ref)

\* The tab opened at the folder, else the one in front, else one that is open.
FilesTabForRoute(dir) ==
    LET open == {ref \in Browsers : fl.tabs[ref] # <<>>}
    IN  IF dir \in open THEN {dir} ELSE IF fl.active # <<>> THEN {fl.active[1]} ELSE open

\* The tab that is bound reads at once; another one is brought to the front, which reads.
PointFilesTab(f, ref, dir) ==
    LET s == PointTo(StateFor(f, ref).tabs[ref][1], dir)
        g == [StateFor(f, ref) EXCEPT !.tabs[ref] = <<s>>, !.default = dir]
    IN  IF f.bound = <<ref>> THEN LoadDir(g) ELSE g

RouteApplied ==
    \E dir \in Tree : \E ref \in FilesTabForRoute(dir) :
        /\ Spend("moves") /\ UNCHANGED fldisk
        /\ LET g == PointFilesTab(fl, ref, dir)
           IN  fl' = IF fl.active = <<ref>> THEN g ELSE ShowFilesTab(TabChanged(g, <<ref>>), ref)

Tabs == RouteApplied \/ Leaves \/ \E ref \in Browsers : Activates(ref) \/ Closes(ref)

-----------------------------------------------------------------------------
(* Moving about in the tab that is bound.                                  *)

InFront(f) == f.active # <<>> /\ f.active = f.bound

\* publishDir: what every move does after it.
PublishDir(f) == LoadDir([f EXCEPT !.default = Cur(f).path])

Navigate(f, path) == PublishDir(InCur(f, NavigateIn(Cur(f), path)))

\* A click on a name acts on the folder the tab is at now, whenever its row was drawn; a name
\* put back after a rename has no click left.
OpensRow ==
    \E r \in fl.rows :
        /\ r.isDir /\ r.wired /\ r.typed = None
        /\ fl' = Navigate(fl, JoinPath(Cur(fl).path, r.name))

TypesPath == \E dir \in Tree : fl' = Navigate(fl, NormalizeDirPath(dir \o <<"">>))

GoesUp == Cur(fl).path # Root /\ ~fl.error /\ fl' = Navigate(fl, ParentPath(Cur(fl).path))

GoBack == GoBackIn(Cur(fl)) # Cur(fl) /\ fl' = PublishDir(InCur(fl, GoBackIn(Cur(fl))))

GoForward == GoForwardIn(Cur(fl)) # Cur(fl) /\ fl' = PublishDir(InCur(fl, GoForwardIn(Cur(fl))))

\* The error's own buttons.
GoToRoot == fl.error /\ Cur(fl).path # Root /\ fl' = Navigate(fl, Root)

Retry == fl.error /\ fl' = LoadDir(fl)

Moves ==
    /\ InFront(fl) /\ ~fl.find.open /\ Spend("moves") /\ UNCHANGED fldisk
    /\ OpensRow \/ TypesPath \/ GoesUp \/ GoBack \/ GoForward \/ GoToRoot \/ Retry

\* The box's offset is recorded while it is on the screen.
Scrolls ==
    /\ InFront(fl) /\ fl.rows # {} /\ Spend("scrolls") /\ UNCHANGED fldisk
    /\ fl' = InCur([fl EXCEPT !.scrolled = ~@], [Cur(fl) EXCEPT !.scrolled = ~fl.scrolled])

-----------------------------------------------------------------------------
(* Choosing.                                                               *)

SelectEntry(s, n) == [s EXCEPT !.selected = @ \cup {n}, !.last = n]
DeselectEntry(s, n) == [s EXCEPT !.selected = @ \ {n}, !.last = n]

\* Every name of the listing between the two, as it was sorted last.
ShiftSelect(s, n) ==
    LET at(m) == {i \in DOMAIN s.sorted : s.sorted[i] = m}
        ends == at(s.last) \cup at(n)
        between == {s.sorted[i] : i \in {j \in DOMAIN s.sorted : \E a, b \in ends : a <= j /\ j <= b}}
    IN  IF at(s.last) = {} \/ at(n) = {} THEN s
        ELSE [s EXCEPT !.selected = @ \cup between, !.last = n]

Ticks ==
    /\ InFront(fl) /\ ~fl.find.open /\ Spend("ticks") /\ UNCHANGED fldisk
    /\ \/ \E n \in RowNames(fl) :
             fl' = InCur(fl, IF n \in Cur(fl).selected THEN DeselectEntry(Cur(fl), n) ELSE SelectEntry(Cur(fl), n))
       \/ \E n \in RowNames(fl) : Cur(fl).last # None /\ fl' = InCur(fl, ShiftSelect(Cur(fl), n))
       \/ Cur(fl).selected # {} /\ fl' = InCur(fl, [Cur(fl) EXCEPT !.selected = {}])

-----------------------------------------------------------------------------
(* Requests.  One of a scope runs at a time, the others wait their turn.   *)

Job(kind, dir, names, to) ==
    [kind |-> kind, dir |-> dir, names |-> names, to |-> to, st |-> "sent", from |-> None]

ScopeOf(j) == CASE j.kind = "upload" -> <<"upload">>
                [] j.kind = "rename" -> <<"file", j.dir, j.names>>
                [] OTHER -> <<"dir", j.dir>>

Dispatch(f, j) == [f EXCEPT !.jobs = Append(@, j)]

\* While any of them is out the toolbar's own buttons are off; a key, a drop and the picker are not.
Idle(f) == f.jobs = <<>>

Writable == Cur(fl).writable

CreateEntry ==
    /\ Idle(fl) /\ Writable /\ fl.ask = <<>>
    /\ fl' = Dispatch(fl, Job("create", Cur(fl).path, {NewName}, NewName))

\* F2 needs one name chosen and asks nothing else; the button needs a folder that can be written.
RenameSelected ==
    \E n \in Cur(fl).selected :
        /\ Cur(fl).selected = {n} /\ \A r \in fl.rows : r.typed = None
        /\ fl' = StartInlineRename(fl, n) /\ fl' # fl

TypeName == \E r \in fl.rows : \E n \in ToSet(Names) :
    r.typed \notin {None, n} /\ fl' = SetRow(fl, [r EXCEPT !.typed = n])

\* The request names the folder the tab is at when the box is left.
CommitRename ==
    \E r \in fl.rows :
        /\ r.typed # None
        /\ LET g == SetRow(fl, [r EXCEPT !.typed = None, !.wired = FALSE])
           IN  fl' = IF r.typed = r.name THEN g
                     ELSE Dispatch(g, Job("rename", Cur(fl).path, {r.name}, r.typed))

CancelRename == \E r \in fl.rows : r.typed # None /\ fl' = SetRow(fl, [r EXCEPT !.typed = None, !.wired = FALSE])

\* The names and the folder are taken when the question is asked.
DeleteSelected ==
    /\ Idle(fl) /\ Writable /\ Cur(fl).selected # {} /\ fl.ask = <<>>
    /\ fl' = [fl EXCEPT !.ask = <<[dir |-> Cur(fl).path, names |-> Cur(fl).selected]>>]

\* The rows of those names leave the list at once.
DeleteConfirmed ==
    /\ fl.ask # <<>>
    /\ LET a == fl.ask[1]
           rows == {IF r.name \in a.names THEN [r EXCEPT !.exiting = TRUE] ELSE r : r \in fl.rows}
       IN  fl' = Dispatch([fl EXCEPT !.ask = <<>>, !.rows = rows], Job("delete", a.dir, a.names, None))

DeleteDeclined == fl.ask # <<>> /\ fl' = [fl EXCEPT !.ask = <<>>]

Asks ==
    /\ InFront(fl) /\ ~fl.find.open /\ Spend("asks") /\ UNCHANGED fldisk
    /\ CreateEntry \/ RenameSelected \/ DeleteSelected

Settles ==
    /\ UNCHANGED fldisk
    /\ \/ Spend("asks") /\ TypeName
       \/ UNCHANGED flleft /\ (CommitRename \/ CancelRename \/ DeleteConfirmed \/ DeleteDeclined)

-----------------------------------------------------------------------------
(* Uploads.                                                                *)

\* preflightUploads: a file too big, one too many or one over the total is left behind.
PreflightUploads(files) ==
    LET take(kept, file) ==
            IF \/ file.size > MaxTotal
               \/ Len(kept.files) >= MaxFiles
               \/ kept.total + file.size > MaxTotal
            THEN [kept EXCEPT !.rejected = Append(@, file)]
            ELSE [kept EXCEPT !.files = Append(@, file), !.total = @ + file.size]
    IN  FoldLeft(take, [files |-> <<>>, rejected |-> <<>>, total |-> 0], files)

\* screenUploads: what is left of the pick, and nothing when nothing is.
ScreenUploads(files) ==
    LET kept == PreflightUploads(files).files IN {kept[i].name : i \in DOMAIN kept}

Uploading(f) == \E i \in DOMAIN f.jobs : f.jobs[i].kind = "upload"

\* uploadFiles: the strip and its Cancel are one for all.
UploadFiles(f) == [f EXCEPT !.strip.shown = TRUE, !.strip.cancel = TRUE]

UploadTo(f, names, dir, from) ==
    LET j == [Job("upload", dir, names, None) EXCEPT !.from = from]
    IN  IF names = {} THEN f ELSE Dispatch(IF Uploading(f) THEN f ELSE UploadFiles(f), j)

\* The dialog's button, a drop on the list or on one of its folders.
UploadViaDialog(pick) == Idle(fl) /\ Writable /\ fl' = UploadTo(fl, ScreenUploads(pick), Cur(fl).path, "browser")

DropsFiles(pick) ==
    \E dir \in {Cur(fl).path} \cup {JoinPath(Cur(fl).path, e.name) : e \in {d \in Cur(fl).entries : d.isDir}} :
        fl' = UploadTo(fl, ScreenUploads(pick), dir, "browser")

Uploads ==
    /\ InFront(fl) /\ Spend("uploads") /\ UNCHANGED fldisk
    /\ \E pick \in Picks : UploadViaDialog(pick) \/ DropsFiles(pick)

\* teardownCancelUI, and the hiding of the strip a while later; the next upload of the queue
\* takes the strip over.
UploadSettled(f) ==
    LET g == [f EXCEPT !.strip.cancel = FALSE, !.strip.hides = @ + 1]
    IN  IF Uploading(g) THEN UploadFiles(g) ELSE g

\* A hiding due from an earlier upload hides the strip of the one that runs.
StripHides ==
    /\ fl.strip.hides > 0 /\ UNCHANGED <<fldisk, flleft>>
    /\ fl' = [fl EXCEPT !.strip.shown = FALSE, !.strip.hides = @ - 1]

-----------------------------------------------------------------------------
(* What the server does with a request and what its answer does.           *)

There(p) == p \in fldisk.dirs \cup fldisk.files

Add(disk, p) == [disk EXCEPT !.files = @ \cup {p}]

Carried(paths, from, to) ==
    {IF q = from \/ Under(q, from) THEN to \o SubSeq(q, Len(from) + 1, Len(q)) ELSE q : q \in paths}

DropAll(disk, paths) ==
    [dirs |-> {q \in disk.dirs : \A p \in paths : q # p /\ ~Under(q, p)},
     files |-> {q \in disk.files : \A p \in paths : q # p /\ ~Under(q, p)}]

\* What a request does when it is done whole, and whether it can be.
Can(j) ==
    LET to == JoinPath(j.dir, j.to)
        paths == {JoinPath(j.dir, n) : n \in j.names}
    IN  /\ j.dir \in fldisk.dirs \ ReadOnly
        /\ CASE j.kind = "create" -> ~There(to)
             [] j.kind = "rename" -> ~There(to) /\ \A p \in paths : There(p)
             [] j.kind = "delete" -> \A p \in paths : There(p)
             [] OTHER -> paths \cap fldisk.dirs = {}

Effect(j, names) ==
    LET paths == {JoinPath(j.dir, n) : n \in names}
        from == JoinPath(j.dir, CHOOSE n \in j.names : TRUE)
        to == JoinPath(j.dir, j.to)
    IN  CASE j.kind = "rename" -> [dirs |-> Carried(fldisk.dirs, from, to), files |-> Carried(fldisk.files, from, to)]
          [] j.kind = "delete" -> DropAll(fldisk, paths)
          [] OTHER -> [fldisk EXCEPT !.files = @ \cup paths]

First(i) == \A k \in 1..(i - 1) : ScopeOf(fl.jobs[k]) # ScopeOf(fl.jobs[i])

\* One that cannot be done whole is refused; a delete or an upload may be done in part.
JobServed(i) ==
    LET j == fl.jobs[i]
        settle(st) == [fl EXCEPT !.jobs[i].st = st]
    IN  /\ j.st = "sent" /\ First(i)
        /\ \/ Can(j) /\ fldisk' = Effect(j, j.names) /\ fl' = settle("done") /\ UNCHANGED flleft
           \/ ~Can(j) /\ fl' = settle("refused") /\ UNCHANGED <<fldisk, flleft>>
           \/ /\ Can(j) /\ j.kind \in {"delete", "upload"} /\ Spend("fails")
              /\ \E part \in SUBSET j.names :
                     part # j.names /\ fldisk' = Effect(j, part) /\ fl' = settle("refused")

\* What was done without the page hearing of it.
OwesList(f, j) == IF j.kind \in {"rename", "upload", "create"} THEN Unheard(f, j.dir) ELSE f

\* A delete reads the list again after its rows have left.
DeleteDone(f) == InCur([f EXCEPT !.timers = @ + 1], [Cur(f) EXCEPT !.selected = {}])

\* Callbacks act on whichever tab is bound, not the one that asked.
JobDone(f, j) ==
    CASE j.kind = "create" -> LoadDirAsync(f)
      [] j.kind = "rename" -> LoadDir(InCur(f, [Cur(f) EXCEPT !.selected = {}]))
      [] j.kind = "delete" -> DeleteDone(f)
      [] OTHER -> LET g == UploadSettled(f)
                  IN  IF j.from = "picker" THEN [(IF g.bound # <<>> THEN LoadDir(g) ELSE g) EXCEPT !.picker.open = FALSE]
                      ELSE LoadDir(g)

\* A delete that failed takes back every row that was leaving and reads the list; the others
\* leave it as it is.
JobFailed(f, j) ==
    CASE j.kind = "delete" -> LoadDir([f EXCEPT !.rows = {[r EXCEPT !.exiting = FALSE] : r \in @}])
      [] j.kind = "upload" -> UploadSettled(OwesList(f, j))
      [] OTHER -> OwesList(f, j)

JobAnswered(i) ==
    LET j == fl.jobs[i]
        g == [fl EXCEPT !.jobs = RemoveAt(@, i)]
    IN  /\ UNCHANGED fldisk
        /\ \/ j.st = "done" /\ fl' = JobDone(g, j) /\ UNCHANGED flleft
           \/ j.st = "refused" /\ fl' = JobFailed(g, j) /\ UNCHANGED flleft
           \/ j.st = "done" /\ Spend("fails") /\ fl' = JobFailed(g, j)

\* The strip's button gives the upload up, whatever of it has landed.
CancelUpload ==
    /\ fl.strip.cancel /\ fl.strip.shown /\ Spend("fails") /\ UNCHANGED fldisk
    /\ \E i \in DOMAIN fl.jobs :
          /\ fl.jobs[i].kind = "upload" /\ First(i)
          /\ fl' = JobFailed([fl EXCEPT !.jobs = RemoveAt(@, i)], fl.jobs[i])

\* setTimeout(loadDir, 200).
TimerFires ==
    /\ fl.timers > 0 /\ UNCHANGED <<fldisk, flleft>>
    /\ fl' = LoadDir([fl EXCEPT !.timers = @ - 1])

Jobs == CancelUpload \/ TimerFires \/ StripHides \/ \E i \in DOMAIN fl.jobs : JobServed(i) \/ JobAnswered(i)

\* Somebody else writes a file; no page is told.
OtherWrites ==
    \E dir \in fldisk.dirs : \E n \in ToSet(Names) :
        /\ ~There(JoinPath(dir, n)) /\ Spend("edits")
        /\ fldisk' = Add(fldisk, JoinPath(dir, n)) /\ fl' = Unheard(fl, dir)

-----------------------------------------------------------------------------
(* Find in files: one bar, over the tab it was opened on.                  *)

\* What is searched: nothing while no tab is bound.
SearchPath(f) == IF f.bound = <<>> THEN {} ELSE {Cur(f).path}

RunSearch(f) ==
    LET g == [f EXCEPT !.find.timer = FALSE, !.find.out = <<>>]
    IN  IF f.find.q = None THEN [g EXCEPT !.find.hits = {}, !.find.note = None]
        ELSE [g EXCEPT !.find.out = <<[q |-> f.find.q, st |-> "out", at |-> Cur(f).path, hits |-> {}]>>]

\* The bar belongs to the tab in front once the browser has been brought there.
OpenFilesSearch ==
    /\ InFront(fl) /\ fl.ask = <<>> /\ SearchPath(fl) # {} /\ Spend("finds") /\ UNCHANGED fldisk
    /\ fl' = RunSearch([fl EXCEPT !.find.open = TRUE, !.find.owner = fl.active])

TypesQuery ==
    /\ fl.find.open /\ InFront(fl) /\ Spend("finds") /\ UNCHANGED fldisk
    /\ \E q \in {None} \cup ToSet(Names) :
           q # fl.find.q /\ fl' = [fl EXCEPT !.find.q = q, !.find.timer = TRUE]

\* The debounce runs out, or Enter, the case button.
SearchRuns == fl.find.open /\ fl.find.timer /\ fl' = RunSearch(fl) /\ UNCHANGED <<fldisk, flleft>>

SearchServed ==
    /\ fl.find.out # <<>> /\ fl.find.out[1].st = "out" /\ UNCHANGED <<fldisk, flleft>>
    /\ LET o == fl.find.out[1]
       IN  fl' = [fl EXCEPT !.find.out = <<[o EXCEPT !.st = "served",
                     !.hits = {p \in fldisk.dirs \cup fldisk.files : Under(p, o.at) /\ Last(p) = o.q}]>>]

\* An answer to what is no longer typed is dropped; a failure leaves the hits and says so.
SearchArrives ==
    /\ fl.find.out # <<>> /\ UNCHANGED fldisk
    /\ LET o == fl.find.out[1]
           g == [fl EXCEPT !.find.out = <<>>]
       IN  \/ o.st = "served" /\ UNCHANGED flleft
              /\ fl' = IF o.q # fl.find.q THEN g
                       ELSE [g EXCEPT !.find.hits = o.hits, !.find.note = IF o.hits = {} THEN "empty" ELSE "found"]
           \/ Spend("fails") /\ fl' = IF o.q # fl.find.q THEN g ELSE [g EXCEPT !.find.note = "failed"]

\* A folder among the hits is gone to, once the bar is closed.
OpensHit ==
    /\ fl.find.open /\ InFront(fl) /\ Spend("moves") /\ UNCHANGED fldisk
    /\ \E p \in fl.find.hits : p \in Tree /\ fl' = Navigate(CloseFilesSearch(fl), p)

ClosesSearch == fl.find.open /\ fl' = CloseFilesSearch(fl) /\ UNCHANGED <<fldisk, flleft>>

Finds == OpenFilesSearch \/ TypesQuery \/ SearchRuns \/ SearchServed \/ SearchArrives \/ OpensHit \/ ClosesSearch

-----------------------------------------------------------------------------
(* The attachment picker: a listing and a selection of its own.            *)

\* Every move of the picker drops the selection and reads.
PickerLoads(f, at) ==
    [f EXCEPT !.picker.at = at, !.picker.selected = {}, !.picker.out = <<[path |-> at, st |-> "out", files |-> {}]>>]

OpenFilePicker ==
    /\ ~fl.picker.open /\ fl.ask = <<>> /\ Spend("picks") /\ UNCHANGED fldisk
    /\ fl' = PickerLoads([fl EXCEPT !.picker.open = TRUE], Root)

PickerMoves ==
    /\ fl.picker.open /\ Spend("picks") /\ UNCHANGED fldisk
    /\ \/ fl.picker.at # Root /\ fl' = PickerLoads(fl, ParentPath(fl.picker.at))
       \/ \E e \in fl.picker.rows : e.isDir /\ fl' = PickerLoads(fl, JoinPath(fl.picker.at, e.name))
       \/ fl.picker.error /\ fl' = PickerLoads(fl, fl.picker.at)

PickerServed ==
    /\ fl.picker.out # <<>> /\ fl.picker.out[1].st = "out" /\ UNCHANGED <<fldisk, flleft>>
    /\ LET o == fl.picker.out[1]
       IN  fl' = [fl EXCEPT !.picker.out = <<[o EXCEPT !.st = "served", !.files = Entries(o.path)]>>]

PickerArrives ==
    /\ fl.picker.out # <<>> /\ UNCHANGED fldisk
    /\ LET o == fl.picker.out[1]
           g == [fl EXCEPT !.picker.out = <<>>, !.picker.error = FALSE]
       IN  \/ o.st = "served" /\ o.path \in fldisk.dirs /\ fl' = [g EXCEPT !.picker.rows = o.files] /\ UNCHANGED flleft
           \/ Spend("fails") /\ fl' = [g EXCEPT !.picker.rows = {}, !.picker.error = TRUE]

PickerTicks ==
    /\ fl.picker.open /\ Spend("picks") /\ UNCHANGED fldisk
    /\ \E e \in fl.picker.rows :
           fl' = [fl EXCEPT !.picker.selected = IF e.name \in @ THEN @ \ {e.name} ELSE @ \cup {e.name}]

PickerAttaches ==
    /\ fl.picker.open /\ fl.picker.selected # {} /\ UNCHANGED <<fldisk, flleft>>
    /\ fl' = [fl EXCEPT !.picker.selected = {}, !.picker.open = FALSE]

\* performUpload: its success closes the picker, the same one or one opened since.
PerformUpload ==
    /\ fl.picker.open /\ Spend("uploads") /\ UNCHANGED fldisk
    /\ \E pick \in Picks : fl' = UploadTo(fl, ScreenUploads(pick), fl.picker.at, "picker")

PickerCloses == fl.picker.open /\ fl' = [fl EXCEPT !.picker.open = FALSE] /\ UNCHANGED <<fldisk, flleft>>

Picker == OpenFilePicker \/ PickerMoves \/ PickerServed \/ PickerArrives \/ PickerTicks \/ PickerAttaches \/ PerformUpload \/ PickerCloses

-----------------------------------------------------------------------------

FilesInit ==
    /\ fl = [tabs |-> [ref \in Browsers |-> <<>>], bound |-> <<>>, active |-> <<>>, default |-> Root,
             rows |-> {}, error |-> FALSE, scrolled |-> FALSE, reads |-> <<>>, jobs |-> <<>>, ask |-> <<>>,
             timers |-> 0, unheard |-> {}, strip |-> [shown |-> FALSE, cancel |-> FALSE, hides |-> 0],
             find |-> [open |-> FALSE, owner |-> <<>>, q |-> None, timer |-> FALSE, out |-> <<>>, hits |-> {}, note |-> None],
             picker |-> [open |-> FALSE, at |-> Root, selected |-> {}, rows |-> {}, out |-> <<>>, error |-> FALSE]]
    /\ fldisk = [dirs |-> Tree, files |-> Files]
    /\ flleft \in FileScenarios

FilesNext == Reads \/ Tabs \/ Moves \/ Scrolls \/ Ticks \/ Asks \/ Settles \/ Uploads \/ Jobs \/ OtherWrites \/ Finds \/ Picker

\* Nothing the page waits for is out.
Quiet == fl.reads = <<>> /\ fl.jobs = <<>> /\ fl.timers = 0

\* Once nothing is out, the list shows what is in the folder the tab in front is at: reads,
\* timers and answers reach whichever tab is bound, of the folder it is at by then.  Folders
\* changed without the page being told, and those whose read failed, are the exceptions.
ListedIsThere ==
    Quiet /\ InFront(fl) /\ Cur(fl).path \notin fl.unheard
        => /\ Cur(fl).entries = Entries(Cur(fl).path)
           /\ RowNames(fl) = {e.name : e \in Entries(Cur(fl).path)}
=============================================================================
