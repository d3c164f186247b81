----------------------------- MODULE ProgramsPage -----------------------------
(***************************************************************************)
(* The page with the list of programs (routes/programs.tsx): what a file   *)
(* is picked for, reading and checking it, the dialogs, and the requests   *)
(* that follow.  The editor over the list has a module of its own.         *)
(***************************************************************************)
EXTENDS Naturals, FiniteSets

CONSTANTS Rows,        \* ids of the programs in the list
          Readonly,    \* those that were shipped with the firmware
          NoRow,       \* no row: a new program, nothing selected
          Files,       \* [ok, declared, warns]: what checking a file says
          NoFile,
          MaxReads,    \* bound: files being read
          MaxSent      \* bound: requests on their way

VARIABLES target,      \* uploadTargetRef: the row the picker was opened for
          picking,     \* whether the browser's file picker is open
          reads,       \* files being read, each with the row it was picked for
          asking,      \* pendingUpload: what the dialog asks about, or NoUpload
          offered,     \* the upload the notice's button sends, or NoUpload
          deleting,    \* pendingDelete
          selected,    \* selectedId
          editing,     \* whether the editor is open over the list
          sent         \* requests on their way; the newest of an operation
                       \* is the one that keeps the page busy

programsPageVars ==
  <<target, picking, reads, asking, offered, deleting, selected, editing, sent>>

Upload(file, row, to) == [file |-> file, row |-> row, to |-> to]
NoUpload == Upload(NoFile, NoRow, NoRow)

ProgramsPageInit ==
  /\ target = NoRow /\ picking = FALSE /\ reads = {}
  /\ asking = NoUpload /\ offered = NoUpload
  /\ deleting = NoRow /\ selected = NoRow /\ editing = FALSE
  /\ sent = {}

Busy == \E r \in sent : r.newest

(* A dialog is modal, and so is the browser's file picker.                 *)
Dialog == asking # NoUpload \/ deleting # NoRow \/ picking

(* The buttons of the list, and the list under the editor.                 *)
InList == ~ Busy /\ ~ Dialog /\ ~ editing

-----------------------------------------------------------------------------

RequestFor(op, id, upload) == [op |-> op, id |-> id, upload |-> upload, newest |-> TRUE]

(* mutate(): a mutation shows its newest call alone.                       *)
Mutate(request) ==
  sent' = {[r EXCEPT !.newest = @ /\ r.op # request.op] : r \in sent} \cup {request}

(* send(): where to is the row to replace, or a new program.               *)
Send(upload) ==
  Mutate(RequestFor(IF upload.to = NoRow THEN "create" ELSE "replace", upload.to, upload))

OpenPicker(row) ==
  /\ InList /\ row \notin Readonly
  /\ target' = row /\ picking' = TRUE /\ offered' = NoUpload
  /\ UNCHANGED <<reads, asking, deleting, selected, editing, sent>>

DismissPicker ==
  /\ picking /\ picking' = FALSE
  /\ UNCHANGED <<target, reads, asking, offered, deleting, selected, editing, sent>>

(* The row is looked up before the file is read.                           *)
ChooseFile(file) ==
  /\ picking /\ Cardinality(reads) < MaxReads
  /\ picking' = FALSE
  /\ reads' = reads \cup {Upload(file, target, target)}
  /\ UNCHANGED <<target, asking, offered, deleting, selected, editing, sent>>

(* Slip: looked up when the file was read.                                 *)
PickedForLate(read) == target

PickedFor(read) == read.to

(* Slip: what the file says of itself is not compared.                     *)
WrongRowNever(file, row) == FALSE

WrongRow(file, row) == row # NoRow /\ file.declared \notin {NoRow, row}

ConfirmOrSend(upload) ==
  IF upload.file.warns THEN asking' = upload /\ UNCHANGED sent
  ELSE Send(upload) /\ UNCHANGED asking

FileRead(read) ==
  LET upload == [read EXCEPT !.to = PickedFor(read)]
  IN  /\ Cardinality(sent) < MaxSent
      /\ reads' = reads \ {read}
      /\ IF ~ read.file.ok THEN offered' = NoUpload /\ UNCHANGED <<asking, sent>>
         ELSE IF WrongRow(read.file, upload.to)
              THEN offered' = [upload EXCEPT !.to = NoRow] /\ UNCHANGED <<asking, sent>>
              ELSE ConfirmOrSend(upload) /\ UNCHANGED offered
      /\ UNCHANGED <<target, picking, deleting, selected, editing>>

(* The button in the notice, which is not kept back while the page is busy.*)
UploadAsNew ==
  /\ offered # NoUpload /\ ~ Dialog /\ Cardinality(sent) < MaxSent
  /\ ConfirmOrSend(offered)
  /\ UNCHANGED <<target, picking, reads, offered, deleting, selected, editing>>

DismissNotice ==
  /\ offered # NoUpload /\ ~ Dialog /\ offered' = NoUpload
  /\ UNCHANGED <<target, picking, reads, asking, deleting, selected, editing, sent>>

ConfirmUpload ==
  /\ asking # NoUpload /\ Cardinality(sent) < MaxSent
  /\ asking' = NoUpload /\ Send(asking)
  /\ UNCHANGED <<target, picking, reads, offered, deleting, selected, editing>>

CancelUpload ==
  /\ asking # NoUpload /\ asking' = NoUpload
  /\ UNCHANGED <<target, picking, reads, offered, deleting, selected, editing, sent>>

AskDelete(row) ==
  /\ InList /\ row \notin Readonly /\ deleting' = row
  /\ UNCHANGED <<target, picking, reads, asking, offered, selected, editing, sent>>

ConfirmDelete ==
  /\ deleting # NoRow /\ Cardinality(sent) < MaxSent
  /\ deleting' = NoRow /\ Mutate(RequestFor("delete", deleting, NoUpload))
  /\ UNCHANGED <<target, picking, reads, asking, offered, selected, editing>>

CancelDelete ==
  /\ deleting # NoRow /\ deleting' = NoRow
  /\ UNCHANGED <<target, picking, reads, asking, offered, selected, editing, sent>>

LoadOrUnload(op, row) ==
  /\ InList /\ Cardinality(sent) < MaxSent
  /\ Mutate(RequestFor(op, IF op = "load" THEN row ELSE NoRow, NoUpload))
  /\ UNCHANGED <<target, picking, reads, asking, offered, deleting, selected, editing>>

Select(row) ==
  /\ ~ Dialog /\ ~ editing /\ selected' = row
  /\ UNCHANGED <<target, picking, reads, asking, offered, deleting, editing, sent>>

OpenEditor ==
  /\ InList /\ editing' = TRUE /\ selected' = NoRow /\ offered' = NoUpload
  /\ UNCHANGED <<target, picking, reads, asking, deleting, sent>>

(* Closed, or by the save of a new program, which is selected.             *)
CloseEditor(row) ==
  /\ editing /\ ~ Dialog /\ editing' = FALSE
  /\ selected' = row
  /\ offered' = IF row = NoRow THEN offered ELSE NoUpload
  /\ UNCHANGED <<target, picking, reads, asking, deleting, sent>>

(* The answer replaces the notice; a program that is gone is not shown     *)
(* any more, a new one is.                                                 *)
AnswerCame(r, ok) ==
  /\ sent' = sent \ {r} /\ offered' = NoUpload
  /\ selected' \in IF ~ ok THEN {selected}
                   ELSE CASE r.op = "delete" /\ selected = r.id -> {NoRow}
                          [] r.op = "create" -> Rows
                          [] OTHER -> {selected}
  /\ UNCHANGED <<target, picking, reads, asking, deleting, editing>>

ProgramsPageNext ==
  \/ \E row \in Rows \cup {NoRow} : OpenPicker(row) \/ Select(row) \/ CloseEditor(row)
  \/ \E row \in Rows : AskDelete(row) \/ LoadOrUnload("load", row)
  \/ LoadOrUnload("unload", NoRow)
  \/ DismissPicker \/ \E file \in Files : ChooseFile(file)
  \/ \E read \in reads : FileRead(read)
  \/ UploadAsNew \/ DismissNotice \/ ConfirmUpload \/ CancelUpload
  \/ ConfirmDelete \/ CancelDelete \/ OpenEditor
  \/ \E r \in sent, ok \in BOOLEAN : AnswerCame(r, ok)

ProgramsPageSpec == ProgramsPageInit /\ [][ProgramsPageNext]_programsPageVars

-----------------------------------------------------------------------------
(* A file replaces only the program it was picked for, and only where it   *)
(* does not say that it is another one; it becomes a new program where     *)
(* that was asked for, first or after that mistake; what the device would  *)
(* store otherwise than it is written was asked about; and only what the   *)
(* dialog named is deleted (programs.tsx:157-216).                         *)
WritesAreMeant ==
  [][\A r \in sent' :
       r.newest /\ r \notin sent =>
         /\ r.op = "replace" => /\ r.id = r.upload.row
                                /\ r.upload.file.declared \in {NoRow, r.id}
         /\ r.op = "create" => \/ r.upload.row = NoRow
                               \/ r.upload.file.declared \notin {NoRow, r.upload.row}
         /\ r.op \in {"create", "replace"} =>
              r.upload.file.ok /\ (r.upload.file.warns => asking = r.upload)
         /\ r.op = "delete" => r.id = deleting /\ r.id \notin Readonly]_programsPageVars
=============================================================================
