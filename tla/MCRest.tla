------------------------------- MODULE MCRest -------------------------------
(***************************************************************************)
(* What a request goes through, one layer to a behaviour: the connections  *)
(* of the HTTP library (HttpServer), the one body that a client sends      *)
(* (Multipart, with a boundary that begins with a dash as those of         *)
(* browsers do), the control lock with its sessions (MCControlLock), or    *)
(* the routes it guards (Rest), in which a session is there or not.        *)
(***************************************************************************)
EXTENDS MCControlLock, Rest, HttpServer, Multipart

VARIABLE sent  \* the parts of the body, <<>> in every other behaviour

MCBoundary == <<"-", "b">>

MCInit == /\ Init /\ RestInit /\ HttpInit
          /\ sent \in {<<>>} \cup Uploads

MCNext ==
  \/ /\ sent = <<>> /\ UNCHANGED sent
     /\ \/ RestInit /\ HttpInit /\ Next /\ UNCHANGED <<restVars, httpVars>>
        \/ Init /\ HttpInit /\ RestNext /\ UNCHANGED <<vars, httpVars>>
        \/ Init /\ RestInit /\ HttpNext /\ UNCHANGED <<vars, restVars>>
  \/ sent # <<>> /\ UNCHANGED <<vars, restVars, httpVars, sent>>

MCSpec == MCInit /\ [][MCNext]_<<vars, restVars, httpVars, sent>>

(* Every upload arrives as it was sent: every byte of a file at its place  *)
(* in the file it belongs to, files final exactly when they are whole,     *)
(* fields with their values, whatever is held back for a delimiter that    *)
(* does not come (MultipartProcessor.cpp:147-342).                         *)
UploadsArriveAsSent == sent # <<>> => ArrivesAsSent(sent)
=============================================================================
