-------------------------------- MODULE MCPages --------------------------------
(***************************************************************************)
(* What people set and see, one part to a behaviour: the device's settings *)
(* from request to boot (Settings); the page that starts programs          *)
(* (RunPage); what the pages hold of the device (PageCaches); the pages of *)
(* the programs (ProgramsPage) and of the clips (AudiosPage); the forms    *)
(* for the hardware (HardwareForm) and the network (WifiForm) and the      *)
(* button that applies both (RestartToApply); the tabs of a browser        *)
(* (BrowserTabs); the editor without a device (StandaloneEditor); and what *)
(* device and browser each compute (Mirrors).                              *)
(***************************************************************************)
EXTENDS Settings, RunPage, PageCaches, ProgramsPage, AudiosPage, HardwareForm,
        WifiForm, RestartToApply, BrowserTabs, StandaloneEditor, Mirrors, TLC

CONSTANTS MCRow1, MCRow2  \* two of the rows

VARIABLES part,  \* the one that moves
          input  \* of the computations that are mirrored, or None

MCFiles == {[ok |-> TRUE, declared |-> NoRow, warns |-> TRUE],
            [ok |-> TRUE, declared |-> MCRow2, warns |-> FALSE],
            [ok |-> FALSE, declared |-> NoRow, warns |-> FALSE]}

MCInputs == NameInputs \cup RunInputs
NoInput == [what |-> "none"]

Alike == Permutations(Programs)

MCParts == {"settings", "run", "caches", "programs", "audios", "hardware",
            "wifi", "restart", "tabs", "standalone", "mirrors"}

pagesVars == <<vars, runPageVars, pageCacheVars, programsPageVars,
               audiosPageVars, hardwareFormVars, wifiFormVars,
               restartPageVars, browserVars, standaloneVars, part, input>>

PagesInit ==
  /\ Init /\ RunPageInit /\ PageCacheInit /\ ProgramsPageInit /\ AudiosPageInit
  /\ HardwareFormInit /\ WifiFormInit /\ RestartPageInit /\ BrowserTabsInit
  /\ StandaloneInit
  /\ part \in MCParts
  /\ input \in IF part = "mirrors" THEN MCInputs ELSE {NoInput}

PagesNext ==
  /\ UNCHANGED <<part, input>>
  /\ IF part = "settings" THEN Next ELSE UNCHANGED vars
  /\ IF part = "run" THEN RunPageNext ELSE UNCHANGED runPageVars
  /\ IF part = "caches" THEN PageCacheNext ELSE UNCHANGED pageCacheVars
  /\ IF part = "programs" THEN ProgramsPageNext ELSE UNCHANGED programsPageVars
  /\ IF part = "audios" THEN AudiosPageNext ELSE UNCHANGED audiosPageVars
  /\ IF part = "hardware" THEN HardwareFormNext ELSE UNCHANGED hardwareFormVars
  /\ IF part = "wifi" THEN WifiFormNext ELSE UNCHANGED wifiFormVars
  /\ IF part = "restart" THEN RestartPageNext ELSE UNCHANGED restartPageVars
  /\ IF part = "tabs" THEN BrowserTabsNext ELSE UNCHANGED browserVars
  /\ IF part = "standalone" THEN StandaloneNext ELSE UNCHANGED standaloneVars

PagesSpec == PagesInit /\ [][PagesNext]_pagesVars

-----------------------------------------------------------------------------
(* What a page shows of the device, and lets people press, is what the     *)
(* device has once everything was heard: the program and its run, the      *)
(* libraries and the window, the button that restarts, and who is logged   *)
(* in (run.tsx:184-325, useSSE.ts:52-144, RestartToApply.tsx:55-71,        *)
(* SettingsContext.tsx:131-164).                                           *)
PagesAgree ==
  CASE part = "run" -> PageAgrees
    [] part = "caches" -> PageKeepsUp
    [] part = "restart" -> RestartingIsTrue
    [] part = "tabs" -> TabsAgree
    [] OTHER -> TRUE

(* A form sends and clears what it shows, whatever its author does while a *)
(* conversion, a save or a fetch takes its time; and a list of files to    *)
(* open has the titles of its own repository, but for those that came while*)
(* it was asked for (audios.tsx:73-165, WifiConfigSection.tsx:68-89,       *)
(* StandaloneEditorApp.tsx:135-176, 371-430).                              *)
FormsAreAsShown ==
  /\ part = "audios" => ClipIsTheLastChoice
  /\ part = "wifi" => NetworkIsAsShown
  /\ part = "standalone" => OpenedAsAsked /\ TitlesAreOfTheList

(* What goes out to the device is what its author meant when pressing the  *)
(* button: a start, a file for a program, a change of the hardware         *)
(* (run.tsx:158-173, programs.tsx:157-216, HardwareSection.tsx:193-206).   *)
RequestsAreMeant == StartsAreMeant /\ WritesAreMeant /\ SavesAreTheAuthors

(* Device and browser come to the same: where the banks stand, and the     *)
(* network that was asked for (bank-state.ts:4-8, ssid-choice.ts:5-12).    *)
BothAgree == MirrorsAgree(input)
=============================================================================
