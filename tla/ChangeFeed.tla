----------------------------- MODULE ChangeFeed -----------------------------
(***************************************************************************)
(* What WatchMysqlBinlog promises those who call run: the changes of the   *)
(* two tables, each once and in the order they were made, from some moment *)
(* on between the call of run and the opening of its stream.               *)
(***************************************************************************)
EXTENDS Naturals, Sequences

VARIABLES
  mode,    \* "off": not running; "asking" where the log ends; "open"; "astray":
           \* the server gave the stream a reason not to keep the promise
  pending, \* the changes made since run was called that it may still hand over
  handed   \* the changes it has handed over

feed == <<mode, pending, handed>>

From(s, n) == SubSeq(s, n, Len(s))

FeedInit == mode = "off" /\ pending = <<>> /\ handed = <<>>

Run ==
  /\ mode = "off" /\ mode' = "asking"
  /\ pending' = <<>> /\ handed' = <<>>

\* Somebody makes changes.
Change(changes) ==
  /\ pending' = IF mode = "off" THEN pending ELSE pending \o changes
  /\ UNCHANGED <<mode, handed>>

\* The stream is opened: changes made before may be in it or not.
Open ==
  /\ mode = "asking" /\ mode' = "open"
  /\ \E n \in 1 .. Len(pending) + 1 : pending' = From(pending, n)
  /\ UNCHANGED handed

\* The next n changes are handed over together: the rows of one update.
HandOver(n) ==
  /\ mode = "open" /\ n \in DOMAIN pending
  /\ handed' = handed \o SubSeq(pending, 1, n)
  /\ pending' = From(pending, n + 1)
  /\ UNCHANGED mode

\* run fails or is dropped.
Stop ==
  /\ mode # "off" /\ mode' = "off"
  /\ pending' = <<>>
  /\ UNCHANGED handed

\* From here on nothing is promised until the next run.
GoAstray == mode' = "astray"

FeedNext ==
  \/ Run \/ Open \/ Stop \/ GoAstray
  \/ Change(From(pending', Len(pending) + 1))
  \/ \E n \in DOMAIN pending : HandOver(n)

FeedSpec == FeedInit /\ [][FeedNext]_feed
=============================================================================
