-------------------------------- MODULE FilePanel --------------------------------
(***************************************************************************)
(* The file panel, its editor and its uploads (FilePanel.vue and           *)
(* EditorDialog.vue), over the queue of questions they ask (dialogs.ts and *)
(* AppDialog.vue).                                                         *)
(*                                                                         *)
(* Every await splits a handler: the answer of the server or of the user   *)
(* comes later, in any order, and finds whatever the panel holds by then.  *)
(* A file is a directory and a name; its content is named by its version,  *)
(* which stands for its mtime too.  Directories, sizes, images and the     *)
(* virtual list are left out.                                              *)
(***************************************************************************)
EXTENDS Naturals, Sequences, FiniteSets, SequencesExt

CONSTANTS
  Dirs, Names,
  Home,         \* the directory the panel opens
  Chosen,       \* the names of the files a user may upload, a sequence
  PageSize,     \* entries of a page (2000)
  MaxVersion,   \* bound: writes of all files
  MaxLoads,     \* bound: listings on their way
  MaxUploads,   \* bound: uploads of Chosen
  MaxQuestions, \* bound: questions open at once
  OnDisk,       \* the files there are at first
  MaxClicks     \* bound: operations begun, and writes of others

ASSUME FilePanelBounds ==
  /\ Home \in Dirs /\ Chosen \in Seq(Names) /\ PageSize \in Nat \ {0}
  /\ MaxVersion \in Nat \ {0} /\ MaxLoads \in Nat /\ MaxUploads \in Nat
  /\ MaxQuestions \in Nat /\ MaxClicks \in Nat
  /\ OnDisk \subseteq [dir : Dirs, name : Names]
  /\ Names # {} /\ IsFiniteSet([dir : Dirs, name : Names])

VARIABLES
  disk,        \* the version of each file; Absent where there is none
  versions,    \* versions written so far
  path,        \* the directory shown
  entries,     \* the files listed
  loads,       \* listings on their way
  readings,    \* files.read on their way
  editor,      \* Closed, or the file, its mtime and its content as props
  doc,         \* what the editor holds
  dirty,
  saves,       \* files.write on their way
  dialogs,     \* the questions: the first is on the screen
  uploads,     \* loops of uploadFiles
  clicks,      \* operations begun
  panel,       \* "shown", "closed", or "signedOut" with the account
  \* History, read by the properties only:
  agreed,      \* uploads the user allowed to overwrite
  replaced     \* uploads that overwrote

fileVars == <<disk, versions, path, entries, loads, readings, editor, doc, dirty, saves,
              dialogs, uploads, clicks, panel, agreed, replaced>>
listVars   == <<path, entries, loads>>
editorVars == <<readings, editor, doc, dirty, saves>>
diskVars   == <<disk, versions>>
uploadVars == <<uploads, agreed, replaced>>

Files == [dir : Dirs, name : Names]
File(dir, name) == [dir |-> dir, name |-> name]
Absent == 0
Closed == [file |-> CHOOSE f \in Files : TRUE, mtime |-> Absent]
Drafts == {MaxVersion + 1, MaxVersion + 2}    \* texts that are no file's
Texts == 0 .. MaxVersion + 2

\* The server refuses who is signed out.
CanWrite == versions < MaxVersion /\ panel # "signedOut"
Put(file) == versions' = versions + 1 /\ disk' = [disk EXCEPT ![file] = versions + 1]

\* The user begins an operation: nothing covers the list.
Click ==
  /\ panel = "shown" /\ editor = Closed /\ dialogs = <<>>
  /\ clicks < MaxClicks /\ clicks' = clicks + 1

-----------------------------------------------------------------------------
(* Questions.                                                              *)

\* enqueue: shown at once, or behind those that wait.
Ask(what, about) ==
  /\ Len(dialogs) < MaxQuestions
  /\ dialogs' = Append(dialogs, [what |-> what, about |-> about])
\* resolveDialog: the next question is on the screen before the answer runs.
Current(what) == dialogs # <<>> /\ Head(dialogs).what = what
resolveDialog == dialogs' = Tail(dialogs)

-----------------------------------------------------------------------------
(* The listing.                                                            *)

\* load() up to its await.
load(dir, append) ==
  /\ Cardinality(loads) < MaxLoads
  /\ loads' = loads \cup {[dir |-> dir, append |-> append,
                           offset |-> IF append THEN Len(entries) ELSE 0]}

Listing(dir) == SetToSeq({f \in Files : f.dir = dir /\ disk[f] # Absent})
Page(dir, offset) ==
  LET all == Listing(dir)
      last == offset + PageSize
  IN  SubSeq(all, offset + 1, IF last < Len(all) THEN last ELSE Len(all))

\* A crumb, a directory or the refresh button; nothing waits for earlier loads.
Navigate(dir) ==
  /\ Click
  /\ load(dir, FALSE)
  /\ UNCHANGED <<path, entries, editorVars, diskVars, uploadVars, dialogs, panel>>
\* loadMore: the button is there when the page was cut, and not while loading.
loadMore ==
  /\ Click
  /\ loads = {} /\ Len(entries) < Len(Listing(path)) /\ load(path, TRUE)
  /\ UNCHANGED <<path, entries, editorVars, diskVars, uploadVars, dialogs, panel>>
LoadAnswers(l) ==
  /\ loads' = loads \ {l}
  /\ path' = l.dir
  /\ entries' = IF l.append THEN entries \o Page(l.dir, l.offset) ELSE Page(l.dir, 0)
  /\ UNCHANGED <<editorVars, diskVars, uploadVars, dialogs, clicks, panel>>
LoadFails(l) ==
  /\ loads' = loads \ {l}
  /\ UNCHANGED <<path, entries, editorVars, diskVars, uploadVars, dialogs, clicks, panel>>

\* await load() at the end of an operation.
Refresh == IF Cardinality(loads) < MaxLoads THEN load(path, FALSE) ELSE UNCHANGED loads

\* Another process writes a file.
OtherWrites(file) ==
  /\ CanWrite /\ Put(file)
  /\ clicks < MaxClicks /\ clicks' = clicks + 1
  /\ UNCHANGED <<listVars, editorVars, uploadVars, dialogs, panel>>

\* The name of an entry goes with the directory shown at that moment.
join(name) == File(path, name)

\* remove and rename ask first, and act on the directory shown by then.
AskAbout(what, entry) ==
  /\ Click
  /\ what \in {"remove", "rename"}
  /\ Ask(what, entry)
  /\ UNCHANGED <<listVars, editorVars, diskVars, uploadVars, panel>>
removeConfirmed ==
  /\ Current("remove") /\ resolveDialog
  /\ disk' = [disk EXCEPT ![join(Head(dialogs).about.name)] = Absent]
  /\ Refresh
  /\ UNCHANGED <<path, entries, editorVars, versions, uploadVars, clicks, panel>>
renamePrompted(name) ==
  /\ Current("rename") /\ resolveDialog
  /\ LET file == join(Head(dialogs).about.name)
     IN  IF disk[file] # Absent /\ disk[join(name)] = Absent
         THEN /\ disk' = [disk EXCEPT ![file] = Absent, ![join(name)] = disk[file]]
              /\ Refresh
         ELSE UNCHANGED <<disk, loads>>
  /\ UNCHANGED <<path, entries, editorVars, versions, uploadVars, clicks, panel>>
\* "No" to either, and to the question of the editor; any answer to one whose
\* editor is gone.
Declined ==
  /\ Current("remove") \/ Current("rename") \/ Current("discard") \/ Current("moot")
  /\ resolveDialog
  /\ UNCHANGED <<listVars, editorVars, diskVars, uploadVars, clicks, panel>>

-----------------------------------------------------------------------------
(* The editor.                                                             *)

\* openText: the button of a listed file.
openText(entry) ==
  /\ Click
  /\ readings' = readings \cup {join(entry.name)}
  /\ UNCHANGED <<editor, doc, dirty, saves, listVars, diskVars, uploadVars, dialogs, panel>>
\* The answer opens the editor, under the directory shown by then.  One that is
\* open keeps its text: the document is made when EditorDialog mounts.
ReadAnswers(file) ==
  /\ readings' = readings \ {file}
  /\ IF panel # "shown" \/ disk[file] = Absent THEN UNCHANGED <<editor, doc, dirty>>
     ELSE /\ editor' = [file |-> join(file.name), mtime |-> disk[file]]
          /\ IF editor = Closed THEN doc' = disk[file] /\ dirty' = FALSE
             ELSE UNCHANGED <<doc, dirty>>
  /\ UNCHANGED <<saves, listVars, diskVars, uploadVars, dialogs, clicks, panel>>

\* The user types, or takes it back: dirty compares with the content opened.
\* typedOn is history: the text changed since the save was sent.
Type ==
  /\ editor # Closed /\ dialogs = <<>>
  /\ doc' \in (Drafts \cup {editor.mtime}) \ {doc}
  /\ dirty' = (doc' # editor.mtime)
  /\ saves' = {[s EXCEPT !.typedOn = TRUE] : s \in saves}
  /\ UNCHANGED <<readings, editor, listVars, diskVars, uploadVars, dialogs,
                 clicks, panel>>

Sent == [file |-> editor.file, mtime |-> editor.mtime, text |-> doc, typedOn |-> FALSE]

\* The draft counts as saved once it is sent.
SaveClearsDirty ==
  /\ editor # Closed /\ dialogs = <<>>
  /\ saves' = saves \cup {Sent}
  /\ dirty' = FALSE
  /\ UNCHANGED <<readings, editor, doc, listVars, diskVars, uploadVars, dialogs, clicks,
                 panel>>
\* save: dirty stays until the editor is closed.
save ==
  /\ editor # Closed /\ dialogs = <<>>
  /\ saves' = saves \cup {Sent}
  /\ UNCHANGED <<readings, editor, doc, dirty, listVars, diskVars, uploadVars, dialogs,
                 clicks, panel>>
\* The server writes when the file is as old as the editor's, and the editor
\* closes: whichever it is, and whatever was typed meanwhile.  A question it had
\* asked stays on the screen, and its answer finds no editor.
Moot(q) == [q EXCEPT !.what = IF q.what = "discard" THEN "moot" ELSE q.what]
SaveSucceeds(s) ==
  /\ disk[s.file] = s.mtime /\ CanWrite
  /\ saves' = saves \ {s}
  /\ Put(s.file)
  /\ editor' = Closed /\ dirty' = FALSE
  /\ dialogs' = [i \in DOMAIN dialogs |-> Moot(dialogs[i])]
  /\ Refresh
  /\ UNCHANGED <<readings, doc, path, entries, uploadVars, clicks, panel>>
\* 409, or another failure: the editor stays open.
SaveRefused(s) ==
  /\ saves' = saves \ {s}
  /\ UNCHANGED <<readings, editor, doc, dirty, listVars, diskVars, uploadVars, dialogs,
                 clicks, panel>>

\* requestClose asks when there is something to lose.
requestClose ==
  /\ editor # Closed /\ dialogs = <<>>
  /\ IF dirty THEN Ask("discard", editor.file) /\ UNCHANGED <<editor, dirty>>
     ELSE editor' = Closed /\ UNCHANGED <<dialogs, dirty>>
  /\ UNCHANGED <<readings, doc, saves, listVars, diskVars, uploadVars, clicks, panel>>
discardConfirmed ==
  /\ Current("discard") /\ resolveDialog
  /\ editor' = Closed /\ dirty' = FALSE
  /\ UNCHANGED <<readings, doc, saves, listVars, diskVars, uploadVars, clicks, panel>>

-----------------------------------------------------------------------------
(* Uploads.  A loop sends its files one after the other.                   *)

Loops == DOMAIN uploads
NameOf(l) == Chosen[uploads[l].index]
Target(l) == File(uploads[l].dir, NameOf(l))
\* On to the next file, or to the end: then the listing is loaded again when
\* it still shows the directory.
Onward(l, set) ==
  IF uploads[l].index < Len(Chosen)
  THEN /\ uploads' = [set EXCEPT ![l].index = uploads[l].index + 1, ![l].stage = "sending"]
       /\ UNCHANGED loads
  ELSE /\ uploads' = [set EXCEPT ![l].stage = "over"]
       /\ IF uploads[l].dir = path THEN Refresh ELSE UNCHANGED loads

\* uploadFiles, from the picker, from a drop on the list or on a directory in it.
uploadFiles(dir) ==
  /\ Click
  /\ Len(uploads) < MaxUploads /\ Chosen # <<>>
  /\ uploads' = Append(uploads,
                       [dir |-> dir, index |-> 1, stage |-> "sending", queued |-> TRUE])
  /\ UNCHANGED <<listVars, editorVars, diskVars, agreed, replaced, dialogs, panel>>
\* send(false): a file that is there is refused, and the user asked.
SentFirst(l) ==
  /\ uploads[l].stage = "sending"
  /\ IF disk[Target(l)] = Absent
     THEN CanWrite /\ Put(Target(l)) /\ Onward(l, uploads) /\ UNCHANGED dialogs
     ELSE /\ Ask("overwrite", l)
          /\ uploads' = [uploads EXCEPT ![l].stage = "asking"]
          /\ UNCHANGED <<diskVars, loads>>
  /\ UNCHANGED <<path, entries, editorVars, agreed, replaced, clicks, panel>>
\* Any answer sends the file again.
overwriteAnyAnswer(yes) ==
  /\ Current("overwrite") /\ resolveDialog
  /\ LET l == Head(dialogs).about
     IN  /\ agreed' = IF yes THEN agreed \cup {<<l, uploads[l].index>>} ELSE agreed
         /\ uploads' = [uploads EXCEPT ![l].stage = "resending"]
  /\ UNCHANGED <<listVars, editorVars, diskVars, replaced, clicks, panel>>
\* The user answers: send(true), or the 409 stays the job's error.
overwriteAnswered(yes) ==
  /\ Current("overwrite") /\ resolveDialog
  /\ LET l == Head(dialogs).about
     IN  IF yes
         THEN /\ uploads' = [uploads EXCEPT ![l].stage = "resending"]
              /\ agreed' = agreed \cup {<<l, uploads[l].index>>}
              /\ UNCHANGED loads
         ELSE Onward(l, uploads) /\ UNCHANGED agreed
  /\ UNCHANGED <<path, entries, editorVars, diskVars, replaced, clicks, panel>>
SentAgain(l) ==
  /\ uploads[l].stage = "resending" /\ CanWrite
  /\ replaced' = IF disk[Target(l)] = Absent THEN replaced
                 ELSE replaced \cup {<<l, uploads[l].index>>}
  /\ Put(Target(l))
  /\ Onward(l, uploads)
  /\ UNCHANGED <<path, entries, editorVars, agreed, dialogs, clicks, panel>>
\* The request fails, or the row's button aborts it; the loop goes on.
UploadFails(l) ==
  /\ uploads[l].stage \in {"sending", "resending"}
  /\ Onward(l, uploads)
  /\ UNCHANGED <<path, entries, editorVars, diskVars, agreed, replaced, dialogs, clicks,
                 panel>>
\* The button that empties the list of jobs.
ClearQueue ==
  /\ panel = "shown" /\ \E l \in Loops : uploads[l].queued
  /\ uploads' = [l \in Loops |-> [uploads[l] EXCEPT !.queued = FALSE]]
  /\ UNCHANGED <<listVars, editorVars, diskVars, agreed, replaced, dialogs, clicks, panel>>

\* onBeforeUnmount aborts the requests of the listed jobs; their loops go on
\* with the next file.
Moved(l, stages) ==
  IF uploads[l].stage \notin stages THEN uploads[l]
  ELSE IF uploads[l].index < Len(Chosen)
  THEN [uploads[l] EXCEPT !.index = @ + 1, !.stage = "sending"]
  ELSE [uploads[l] EXCEPT !.stage = "over"]
Aborted(l) == IF uploads[l].queued THEN {"sending", "resending"} ELSE {}
Unmounted ==
  /\ panel = "shown"
  /\ editor' = Closed /\ dirty' = FALSE
  /\ UNCHANGED <<listVars, readings, doc, saves, diskVars, agreed, replaced, clicks>>

ClosePanel ==
  /\ editor = Closed /\ dialogs = <<>>
  /\ Unmounted /\ panel' = "closed"
  /\ uploads' = [l \in Loops |-> Moved(l, Aborted(l))]
  /\ UNCHANGED dialogs
\* A sign-out resets the questions, and each answer is no: resetDialogs.
SignedOut ==
  /\ Unmounted /\ panel' = "signedOut"
  /\ uploads' = [l \in Loops |-> Moved(l, Aborted(l) \cup {"asking"})]
  /\ dialogs' = <<>>

FileInit ==
  /\ disk = [f \in Files |-> IF f \in OnDisk THEN 1 ELSE Absent]
  /\ versions = 1
  /\ path = Home /\ entries = <<>>
  /\ loads = {[dir |-> Home, append |-> FALSE, offset |-> 0]}
  /\ readings = {} /\ editor = Closed /\ doc = 0 /\ dirty = FALSE /\ saves = {}
  /\ dialogs = <<>> /\ uploads = <<>> /\ panel = "shown" /\ clicks = 0
  /\ agreed = {} /\ replaced = {}

FileNext ==
  \/ \E dir \in Dirs : Navigate(dir) \/ uploadFiles(dir)
  \/ loadMore
  \/ \E l \in loads : LoadAnswers(l) \/ LoadFails(l)
  \/ \E file \in Files : OtherWrites(file)
  \/ \E entry \in ToSet(entries) :
       AskAbout("remove", entry) \/ AskAbout("rename", entry) \/ openText(entry)
  \/ removeConfirmed \/ Declined
  \/ \E name \in Names : renamePrompted(name)
  \/ \E file \in readings : ReadAnswers(file)
  \/ Type \/ save \/ requestClose \/ discardConfirmed
  \/ \E s \in saves : SaveSucceeds(s) \/ SaveRefused(s)
  \/ ClearQueue
  \/ \E l \in Loops : SentFirst(l) \/ SentAgain(l) \/ UploadFails(l)
  \/ \E yes \in BOOLEAN : overwriteAnswered(yes)
  \/ ClosePanel \/ SignedOut

FileSpec == FileInit /\ [][FileNext]_fileVars

-----------------------------------------------------------------------------
(* Properties.                                                             *)

\* The variables have their types.
QuestionKinds == {"remove", "rename", "discard", "moot", "overwrite"}
FileTypeOK ==
  /\ disk \in [Files -> 0 .. MaxVersion] /\ versions \in 1 .. MaxVersion
  /\ path \in Dirs /\ entries \in Seq(Files)
  /\ loads \subseteq [dir : Dirs, append : BOOLEAN, offset : Nat]
  /\ readings \subseteq Files
  /\ saves \subseteq [file : Files, mtime : Texts, text : Texts, typedOn : BOOLEAN]
  /\ editor \in [file : Files, mtime : Texts]
  /\ doc \in Texts /\ dirty \in BOOLEAN
  /\ Len(dialogs) <= MaxQuestions
  /\ \A i \in DOMAIN dialogs : dialogs[i].what \in QuestionKinds
  /\ uploads \in Seq([dir : Dirs, index : 1 .. Len(Chosen), queued : BOOLEAN,
                      stage : {"sending", "asking", "resending", "over"}])
  /\ clicks \in 0 .. MaxClicks
  /\ panel \in {"shown", "closed", "signedOut"}

\* An upload replaces a file that was there only when the user agreed to that
\* very file, whatever other questions were open.
OverwriteAgreed == replaced \subseteq agreed

\* A text that is no file's leaves the editor only with an answered save, with
\* the user's consent, or with the account; and the save that is answered wrote
\* that very text, unless it was typed after the save was sent (save() closes the
\* editor whatever was typed meanwhile).  No refused save, late reading, moot
\* question or other button drops it.
DraftNotDropped ==
  [][(editor # Closed /\ doc \in Drafts /\ editor' = Closed) =>
       \/ \E s \in saves : SaveSucceeds(s) /\ (s.text = doc \/ s.typedOn)
       \/ discardConfirmed \/ SignedOut]_fileVars

================================================================================
