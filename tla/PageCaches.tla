------------------------------ MODULE PageCaches ------------------------------
(***************************************************************************)
(* What the pages hold of the device's libraries and configuration: the    *)
(* queries in a browser's cache, the answers that fill them, and the       *)
(* notices of the event stream that make them fetch again (useSSE.ts).     *)
(* The cache itself is a library the pages use (react-query); what is      *)
(* here of it is what its invalidation and its fetches do.                 *)
(***************************************************************************)
EXTENDS Integers, Sequences, FiniteSets, SequencesExt

CONSTANTS MaxChanges,  \* bound: changes of what the device holds
          MaxUsed      \* bound: the keys that one browser uses

VARIABLES held,     \* per key: the version the device holds
          copy,     \* per key: the version in the cache, or Nothing
          due,      \* per key: isInvalidated
          ask,      \* per key: the fetch under way, and its answer
          mounted,  \* the keys a page on screen uses
          notices,  \* libraryChanged and configWindow, on their way
          link,     \* the stream: "up", "silent" or "down"
          opened,   \* whether the stream was open before
          outrun    \* the keys a notice of which came to nothing

pageCacheVars ==
  <<held, copy, due, ask, mounted, notices, link, opened, outrun>>

QueryKeys == {"programs", "program", "audios", "window"}
Nothing == -1
Idle == [at |-> "idle", version |-> Nothing]
Asked == [at |-> "asked", version |-> Nothing]

(* What is served under a key, as the device's notices name it.            *)
KindOf(key) == CASE key \in {"programs", "program"} -> "program"
                 [] key = "audios" -> "audio"
                 [] key = "window" -> "window"

(* Slip: the documents keep what they were read with.                      *)
LibraryKeysOfLists(kind) == CASE kind = "program" -> {"programs"}
                              [] kind = "audio" -> {"audios"}

(* LIBRARY_QUERY_KEYS: what a notice of a kind makes old.                  *)
LibraryKeys(kind) == CASE kind = "program" -> {"programs", "program"}
                       [] kind = "audio" -> {"audios"}

PageCacheInit ==
  /\ held = [k \in QueryKeys |-> 0]
  /\ copy = [k \in QueryKeys |-> Nothing] /\ due = [k \in QueryKeys |-> FALSE]
  /\ ask = [k \in QueryKeys |-> Idle] /\ mounted = {}
  /\ notices = <<>> /\ link = "down" /\ opened = FALSE
  /\ outrun = {}

-----------------------------------------------------------------------------
(* invalidateQueries: old from here on, fetched again where it is on       *)
(* screen.  A fetch under way is begun again when there is a copy to show  *)
(* meanwhile; the first one is not, and one whose page is gone is not.     *)
BegunAgain(k) == k \in mounted /\ (ask[k] = Idle \/ copy[k] # Nothing)

Invalidate(ks) ==
  /\ due' = [k \in QueryKeys |-> due[k] \/ k \in ks]
  /\ ask' = [k \in QueryKeys |-> IF k \in ks /\ BegunAgain(k) THEN Asked ELSE ask[k]]
  /\ outrun' = outrun \cup {k \in ks : ask[k].at = "answered" /\ ~ BegunAgain(k)}
  /\ UNCHANGED copy

Used(k) == k \in mounted \/ ask[k] # Idle \/ copy[k] # Nothing

(* A page that shows k: fetched unless there is a copy that is not old. By *)
(* time every copy grows old but that of a document.                       *)
Mount(k) ==
  /\ k \notin mounted /\ mounted' = mounted \cup {k}
  /\ Cardinality({k} \cup {q \in QueryKeys : Used(q)}) <= MaxUsed
  /\ \/ /\ ask[k] = Idle
        /\ copy[k] = Nothing \/ due[k] \/ k # "program"
        /\ ask' = [ask EXCEPT ![k] = Asked]
     \/ /\ \/ ask[k] # Idle
           \/ copy[k] # Nothing /\ ~ due[k]
        /\ UNCHANGED ask
  /\ UNCHANGED <<held, copy, due, notices, link, opened, outrun>>

Unmount(k) ==
  /\ k \in mounted /\ mounted' = mounted \ {k}
  /\ UNCHANGED <<held, copy, due, ask, notices, link, opened, outrun>>

Serve(k) ==
  /\ ask[k] = Asked
  /\ ask' = [ask EXCEPT ![k] = [at |-> "answered", version |-> held[k]]]
  /\ outrun' = outrun \ {k}
  /\ UNCHANGED <<held, copy, due, mounted, notices, link, opened>>

FetchEnds(k) ==
  /\ ask[k].at = "answered"
  /\ copy' = [copy EXCEPT ![k] = ask[k].version]
  /\ due' = [due EXCEPT ![k] = FALSE]
  /\ ask' = [ask EXCEPT ![k] = Idle]
  /\ UNCHANGED <<held, mounted, notices, link, opened, outrun>>

FetchFails(k) ==
  /\ ask[k] # Idle /\ ask' = [ask EXCEPT ![k] = Idle]
  /\ due' = [due EXCEPT ![k] = TRUE]
  /\ UNCHANGED <<held, copy, mounted, notices, link, opened, outrun>>

(* The device's libraries change, or its configuration window opens or     *)
(* shuts, and whoever listens is told.  Before the first open nobody does, *)
(* and the fetches of then are not asked again.                            *)
Change(kind) ==
  LET keys == {k \in QueryKeys : KindOf(k) = kind}
  IN  /\ held["programs"] + held["audios"] + held["window"] < MaxChanges
      /\ held' = [k \in QueryKeys |-> IF k \in keys THEN held[k] + 1 ELSE held[k]]
      /\ notices' = IF link = "up"
                    THEN Append(notices, [kind |-> kind, version |-> held'["window"]])
                    ELSE notices
      /\ outrun' = IF opened THEN outrun
                   ELSE outrun \cup {k \in keys \ {"window"} :
                                       copy[k] # Nothing \/ ask[k].at = "answered"}
      /\ UNCHANGED <<copy, due, ask, mounted, link, opened>>

-----------------------------------------------------------------------------
(* The page hears a notice.                                                *)

HearLibraryChanged(notice) ==
  notice.kind # "window" /\ Invalidate(LibraryKeys(notice.kind))

(* configWindow is written into the copy, or has it fetched where there is *)
(* none yet.                                                               *)
HearConfigWindow(notice) ==
  /\ notice.kind = "window"
  /\ IF copy["window"] = Nothing THEN Invalidate({"window"})
     ELSE /\ copy' = [copy EXCEPT !["window"] = notice.version]
          /\ due' = [due EXCEPT !["window"] = FALSE]
          /\ outrun' = IF ask["window"].at = "answered" THEN outrun \cup {"window"} ELSE outrun
          /\ UNCHANGED ask

Hear ==
  /\ notices # <<>> /\ link = "up"
  /\ notices' = Tail(notices)
  /\ HearLibraryChanged(Head(notices)) \/ HearConfigWindow(Head(notices))
  /\ UNCHANGED <<held, mounted, link, opened>>

LinkBreaks ==
  /\ link # "down" /\ link' \in {"silent", "down"} \ {link}
  /\ notices' = <<>>
  /\ UNCHANGED <<held, copy, due, ask, mounted, opened, outrun>>

(* Slip: the library is fetched again on the first open alone.             *)
OnOpenOnce ==
  /\ link = "down" /\ link' = "up" /\ opened' = TRUE
  /\ Invalidate(IF opened THEN {"window"} ELSE QueryKeys)
  /\ UNCHANGED <<held, mounted, notices>>

(* onopen: what was published meanwhile reached nobody.                    *)
OnOpen ==
  /\ link = "down" /\ link' = "up" /\ opened' = TRUE
  /\ Invalidate(IF opened THEN QueryKeys ELSE {"window"})
  /\ UNCHANGED <<held, mounted, notices>>

PageCacheNext ==
  \/ \E k \in QueryKeys : Mount(k) \/ Unmount(k) \/ Serve(k) \/ FetchEnds(k) \/ FetchFails(k)
  \/ \E kind \in {"program", "audio", "window"} : Change(kind)
  \/ Hear \/ LinkBreaks \/ OnOpen

PageCacheSpec == PageCacheInit /\ [][PageCacheNext]_pageCacheVars

-----------------------------------------------------------------------------
(* While a page listens and nothing is on its way, a copy that is not      *)
(* marked old is what the device holds, through every lost stream and lost *)
(* answer - but where a notice outran the answer of a fetch that was not   *)
(* begun again, or the change came before the page first listened          *)
(* (useSSE.ts:52-77, 100-144).                                             *)
PageKeepsUp ==
  link = "up" /\ notices = <<>> =>
    \A k \in QueryKeys \ outrun :
      ask[k] = Idle /\ copy[k] # Nothing /\ ~ due[k] => copy[k] = held[k]
=============================================================================
