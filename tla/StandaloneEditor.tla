--------------------------- MODULE StandaloneEditor ---------------------------
(***************************************************************************)
(* The editor without a device (StandaloneEditorApp.tsx): a program is     *)
(* opened from a repository that is browsed over the network               *)
(* (github-contents.ts), from a local file or from nothing, given an id,   *)
(* and handed to the editor.  Lists, titles and files arrive when they     *)
(* do, also on a page that is no longer there.                             *)
(*                                                                         *)
(* Every repository has a file under every path; a name is its id.  Four   *)
(* titles are fetched at once, here all that there are.                    *)
(***************************************************************************)
EXTENDS Naturals, FiniteSets

CONSTANTS Repos,       \* owner, repo, path and ref, as one
          OwnRepo,     \* what the fields say at first
          NoRepo,      \* no repository: a local file, a new document
          Paths,       \* 42.json, by its id
          NoId,        \* the id of a name of another shape
          TypedId,     \* an id that the author typed
          MaxOpenings  \* bound: files being read

VARIABLES repoBrowser, \* the state of RepoBrowser, and the paths whose title
                       \* came while no list was on the page
          arriving,    \* fetches and reads under way
          openedDoc,   \* opened
          idText,      \* of ConfirmOpen
          editorTarget, \* target
          overtaken    \* another document was opened over the one asked about

standaloneVars ==
  <<repoBrowser, arriving, openedDoc, idText, editorTarget, overtaken>>

NoTitles == [p \in Paths |-> NoRepo]
EmptyRepoBrowser ==
  [typed |-> OwnRepo, listed |-> NoRepo, titles |-> NoTitles, strays |-> {}]
Document(repo, path, ok) == [repo |-> repo, path |-> path, ok |-> ok]
NotOpened == Document(NoRepo, TypedId, FALSE)
NewDocument == Document(NoRepo, NoId, TRUE)
NoTarget == [id |-> NoId, document |-> NotOpened]

StandaloneInit ==
  /\ repoBrowser = EmptyRepoBrowser /\ arriving = {}
  /\ openedDoc = NotOpened /\ idText = NoId /\ editorTarget = NoTarget
  /\ overtaken = FALSE

-----------------------------------------------------------------------------
(* The picker, which is there while nothing is opened.                     *)

PickerShown == openedDoc = NotOpened /\ editorTarget = NoTarget

Arrival(what, repo, path) == [what |-> what, repo |-> repo, path |-> path, mine |-> TRUE]
BusyBrowsing == \E a \in arriving : a.mine /\ a.what \in {"list", "file"}
Openings == {a \in arriving : a.what \in {"file", "local"}}

AskFor(arrival) ==
  /\ arrival \notin arriving /\ arriving' = arriving \cup {arrival}
  /\ UNCHANGED <<openedDoc, idText, editorTarget, overtaken>>

TypeRepo(repo) ==
  /\ PickerShown /\ repoBrowser' = [repoBrowser EXCEPT !.typed = repo]
  /\ UNCHANGED <<arriving, openedDoc, idText, editorTarget, overtaken>>

(* browse(): what was listed goes, the fetches of its titles do not yet.   *)
Browse ==
  /\ PickerShown /\ ~ BusyBrowsing
  /\ repoBrowser' = [repoBrowser EXCEPT !.listed = NoRepo, !.titles = NoTitles,
                                        !.strays = {}]
  /\ AskFor(Arrival("list", repoBrowser.typed, NoId))

(* Slip: the titles asked for before go on arriving.                       *)
LoadTitlesBesides(repo) == arriving \cup {Arrival("title", repo, p) : p \in Paths}

(* loadTitles(): the fetches of the list before are given up.              *)
LoadTitles(repo) ==
  {a \in arriving : a.what # "title"} \cup {Arrival("title", repo, p) : p \in Paths}

ListArrives(a) ==
  /\ a.what = "list" /\ a.mine
  /\ \/ /\ repoBrowser' = [repoBrowser EXCEPT !.listed = a.repo]
        /\ arriving' = LoadTitles(a.repo) \ {a}
     \/ /\ UNCHANGED repoBrowser
        /\ arriving' = arriving \ {a}
  /\ UNCHANGED <<openedDoc, idText, editorTarget, overtaken>>

(* A file that is not there, or has no title, leaves the row as it is.     *)
TitleArrives(a) ==
  /\ a.what = "title" /\ arriving' = arriving \ {a}
  /\ \/ UNCHANGED repoBrowser
     \/ repoBrowser' = [repoBrowser EXCEPT
          !.titles[a.path] = a.repo,
          !.strays = IF repoBrowser.listed = NoRepo THEN @ \cup {a.path} ELSE @ \ {a.path}]
  /\ UNCHANGED <<openedDoc, idText, editorTarget, overtaken>>

OpenFromRepo(path) ==
  /\ PickerShown /\ ~ BusyBrowsing /\ repoBrowser.listed # NoRepo
  /\ Cardinality(Openings) < MaxOpenings
  /\ AskFor(Arrival("file", repoBrowser.listed, path)) /\ UNCHANGED repoBrowser

OpenLocalFile(path) ==
  /\ PickerShown /\ Cardinality(Openings) < MaxOpenings
  /\ AskFor(Arrival("local", NoRepo, path)) /\ UNCHANGED repoBrowser

(* The picker goes, and gives up its titles; files still arrive.           *)
Unmounted(arrivals) ==
  {[a EXCEPT !.mine = FALSE] : a \in {b \in arrivals : b.what \notin {"title", "list"}}}

(* Slip: an id on the page is left there.                                  *)
IdOfMountKept(document) == IF idText = NoId THEN document.path ELSE idText

(* The id that ConfirmOpen starts with: the one suggested.                 *)
IdOfMount(document) == document.path

(* onOpened(), whatever is on the page by now.                             *)
OpensDocument(document, arrivals) ==
  /\ openedDoc' = document
  /\ IF PickerShown
     THEN /\ repoBrowser' = EmptyRepoBrowser /\ arriving' = Unmounted(arrivals)
          /\ idText' = IdOfMount(document)
          /\ UNCHANGED overtaken
     ELSE /\ arriving' = arrivals /\ overtaken' = (overtaken \/ editorTarget = NoTarget)
          /\ UNCHANGED <<repoBrowser, idText>>
  /\ UNCHANGED editorTarget

FileArrives(a) ==
  /\ a.what \in {"file", "local"}
  /\ \/ \E ok \in BOOLEAN : OpensDocument(Document(a.repo, a.path, ok), arriving \ {a})
     \/ /\ arriving' = arriving \ {a}
        /\ UNCHANGED <<repoBrowser, openedDoc, idText, editorTarget, overtaken>>

StartNew == PickerShown /\ OpensDocument(NewDocument, arriving)

-----------------------------------------------------------------------------
(* ConfirmOpen: the id, before the editor opens.                           *)

Confirming == openedDoc # NotOpened /\ editorTarget = NoTarget

TypeId(id) ==
  /\ Confirming /\ openedDoc.ok /\ idText' = id
  /\ UNCHANGED <<repoBrowser, arriving, openedDoc, editorTarget, overtaken>>

BackToPicker ==
  /\ Confirming /\ openedDoc' = NotOpened /\ overtaken' = FALSE
  /\ UNCHANGED <<repoBrowser, arriving, idText, editorTarget>>

OpenInEditor ==
  /\ Confirming /\ openedDoc.ok /\ idText # NoId
  /\ editorTarget' = [id |-> idText, document |-> openedDoc]
  /\ UNCHANGED <<repoBrowser, arriving, openedDoc, idText, overtaken>>

CloseStandalone ==
  /\ editorTarget # NoTarget
  /\ editorTarget' = NoTarget /\ openedDoc' = NotOpened /\ overtaken' = FALSE
  /\ UNCHANGED <<repoBrowser, arriving, idText>>

StandaloneNext ==
  \/ \E repo \in Repos : TypeRepo(repo)
  \/ Browse \/ StartNew \/ BackToPicker \/ OpenInEditor \/ CloseStandalone
  \/ \E a \in arriving : ListArrives(a) \/ TitleArrives(a) \/ FileArrives(a)
  \/ \E path \in Paths : OpenFromRepo(path)
  \/ \E path \in Paths \cup {NoId} : OpenLocalFile(path)
  \/ \E id \in {NoId, TypedId} : TypeId(id)

StandaloneSpec == StandaloneInit /\ [][StandaloneNext]_standaloneVars

-----------------------------------------------------------------------------
(* The editor has a program that could be read, under the id that its name *)
(* gives it or that its author typed, through any number of documents that *)
(* were opened and given back before, or that arrive behind the editor -   *)
(* but where one arrived over the question (StandaloneEditorApp.tsx:55-80, *)
(* 371-395, 419-430).                                                      *)
OpenedAsAsked ==
  editorTarget # NoTarget =>
    /\ editorTarget.document.ok
    /\ ~ overtaken => editorTarget.id \in {editorTarget.document.path, TypedId}

(* The titles on the page are of the repository whose list it shows,       *)
(* whichever was browsed before and whatever is still on its way           *)
(* (StandaloneEditorApp.tsx:135-160) - but those that came between Browse  *)
(* and the list, when the fetches of the list before are not given up yet: *)
(* they may be of the other one, and stay until the row's own title comes  *)
(* (162-176; README, section 4).                                           *)
TitlesAreOfTheList ==
  \A p \in Paths \ repoBrowser.strays :
    repoBrowser.titles[p] \in {NoRepo, repoBrowser.listed}
=============================================================================
