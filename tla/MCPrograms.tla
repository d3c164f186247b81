------------------------------ MODULE MCPrograms ------------------------------
(***************************************************************************)
(* The program library, or an editor session of the page on one program    *)
(* (ProgramEditor): a behaviour is one of the two.                         *)
(***************************************************************************)
EXTENDS MCProgramLibrary, ProgramEditor

MCEvent(duration, command, banks, clips) ==
  [duration |-> duration, command |-> command, banks |-> banks, clips |-> clips]
MCSeries(name, start, events) == [name |-> name, start |-> start, events |-> events]
MCTitled(series) == [title |-> "n", series |-> series]

(* A program with a preamble, and one that was uploaded with an unnamed,   *)
(* empty series.                                                           *)
Preamble ==
  MCTitled(<<MCSeries("n", 1, <<MCEvent(1, "show", <<>>, <<1>>),
                                MCEvent(2, "none", [bank \in {2} |-> "hide"], <<>>)>>)>>)
Sloppy ==
  MCTitled(<<MCSeries("", None, <<>>),
             MCSeries("n", None, <<MCEvent(2, "hide", <<>>, <<>>)>>)>>)

OnPrograms == {Preamble, Sloppy, NoDoc}

(* Typed into the JSON view: a document with an issue that the device      *)
(* stores otherwise, an anchor past the end, a misspelt command, and one   *)
(* bank more.                                                              *)
TypedTexts ==
  {MCTitled(<<MCSeries("", 0, <<MCEvent(3, "show", [bank \in {1} |-> "show"], <<1, 9>>)>>)>>),
   MCTitled(<<MCSeries("n", 2, <<MCEvent(1, "none", <<>>, <<>>)>>)>>),
   MCTitled(<<MCSeries("n", None, <<MCEvent(1, "other", <<>>, <<>>)>>)>>),
   MCTitled(<<MCSeries("n", 1, <<MCEvent(1, "hide", <<>>, <<>>),
                                 MCEvent(1, "hide", [bank \in {2} |-> "show"], <<>>)>>)>>)}

MCNames == {"", "n"}
MCDurations == {0, Typo}

MCInit == Init /\ EditorInit /\ (opened = NoDoc \/ image = Tidy)

MCNext ==
  \/ edits = 0 /\ opened = NoDoc /\ Next /\ UNCHANGED editorVars
  \/ Init /\ image = Tidy /\ EditorNext /\ UNCHANGED vars
  \/ edits > 0 /\ UNCHANGED <<vars, editorVars>>

MCSpec == MCInit /\ [][MCNext]_<<vars, editorVars>>
=============================================================================
