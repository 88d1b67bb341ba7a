-------------------------------- MODULE Page --------------------------------
(***************************************************************************)
(* The page, public/app.js: the module variables TARGET, REPORT,           *)
(* LAST_ERROR and STREAM, what of the document is shown, and the handlers  *)
(* that change them. Two things happen to it in any order: what the user   *)
(* does, and what the event streams deliver.                               *)
(*                                                                         *)
(* A stream carries one scan. It delivers progress and ends with a report, *)
(* a failure or a lost connection; the server is not modelled here.        *)
(***************************************************************************)
EXTENDS Naturals

CONSTANTS
  Hosts,      \* what can be typed
  MaxScans,   \* bound: scans started
  NoHost      \* TARGET = null

ASSUME PageAssumption == MaxScans \in Nat /\ NoHost \notin Hosts

None == 0     \* null, where a scan is expected

VARIABLES
  scans,      \* scans started so far, which number the streams
  hostOf,     \* the host of each
  open,       \* streams that still deliver
  TARGET, REPORT, LAST_ERROR, STREAM,
  disabled,   \* both scan buttons
  progress,   \* the progress box is shown
  cards,      \* the report grid is shown
  empty       \* the start page is shown

streams == <<scans, hostOf, open, STREAM>>
shown   == <<cards, empty>>
vars    == <<streams, TARGET, REPORT, LAST_ERROR, disabled, progress, shown>>

\* A host in the address bar is a first Popped.
Init ==
  /\ scans = 0
  /\ hostOf = [s \in 1..MaxScans |-> NoHost]
  /\ open = {}
  /\ TARGET = NoHost /\ REPORT = None /\ LAST_ERROR = FALSE /\ STREAM = None
  /\ disabled = FALSE /\ progress = FALSE
  /\ cards = FALSE /\ empty = TRUE

-----------------------------------------------------------------------------
\* Mutant: the stream of the previous scan is not closed.
StartBeside(host) ==
  /\ scans < MaxScans
  /\ scans' = scans + 1
  /\ hostOf' = [hostOf EXCEPT ![scans'] = host]
  /\ open' = open \cup {scans'}
  /\ STREAM' = scans'
  /\ TARGET' = host /\ REPORT' = None /\ LAST_ERROR' = FALSE
  /\ disabled' = TRUE /\ progress' = TRUE
  /\ cards' = TRUE /\ empty' = FALSE

StartScan(host) ==
  /\ scans < MaxScans
  /\ scans' = scans + 1
  /\ hostOf' = [hostOf EXCEPT ![scans'] = host]
  /\ open' = (open \ {STREAM}) \cup {scans'}
  /\ STREAM' = scans'
  /\ TARGET' = host /\ REPORT' = None /\ LAST_ERROR' = FALSE
  /\ disabled' = TRUE /\ progress' = TRUE
  /\ cards' = TRUE /\ empty' = FALSE

\* Mutant: the stream is closed, and nothing else of startScan undone.
ShowEmptyClosing ==
  /\ TARGET' = NoHost /\ REPORT' = None /\ LAST_ERROR' = FALSE
  /\ open' = {} /\ STREAM' = None
  /\ progress' = FALSE
  /\ cards' = FALSE /\ empty' = TRUE
  /\ UNCHANGED <<scans, hostOf, disabled>>

\* The stream is left open.
ShowEmpty ==
  /\ TARGET' = NoHost /\ REPORT' = None /\ LAST_ERROR' = FALSE
  /\ progress' = FALSE
  /\ cards' = FALSE /\ empty' = TRUE
  /\ UNCHANGED <<streams, disabled>>

Render ==
  /\ cards' = (REPORT' # None)
  /\ empty' = (REPORT' = None /\ TARGET' = NoHost)

-----------------------------------------------------------------------------
\* The submit button, which Enter in the field needs as well.
Submit == ~disabled /\ \E host \in Hosts : StartScan(host)

\* The example buttons are part of the start page.
Example == empty /\ \E host \in Hosts : StartScan(host)

\* Mutant: the button is in the header, where there may be no host to rescan.
RescanNothing == ~disabled /\ StartScan(TARGET)

Rescan == ~disabled /\ TARGET # NoHost /\ StartScan(TARGET)

Popped == ShowEmpty \/ \E host \in Hosts : StartScan(host)

SwitchLanguage ==
  /\ UNCHANGED <<streams, TARGET, REPORT, LAST_ERROR, disabled, progress>>
  /\ Render

-----------------------------------------------------------------------------
Progress(s) ==
  /\ s \in open
  /\ progress' = TRUE
  /\ UNCHANGED <<streams, TARGET, REPORT, LAST_ERROR, disabled, shown>>

\* How every handler that ends a stream ends.
Close(s) ==
  /\ open' = open \ {s}
  /\ STREAM' = None
  /\ disabled' = FALSE /\ progress' = FALSE
  /\ UNCHANGED <<scans, hostOf, TARGET>>
  /\ Render

\* A report that cannot be parsed is an error of its own.
Reported(s) ==
  /\ s \in open
  /\ \/ REPORT' = s /\ UNCHANGED LAST_ERROR
     \/ LAST_ERROR' = TRUE /\ UNCHANGED REPORT
  /\ Close(s)

Failed(s) ==
  /\ s \in open
  /\ LAST_ERROR' = TRUE
  /\ UNCHANGED REPORT
  /\ Close(s)

\* Mutant: a lost connection is taken for the end of the stream.
LoseSilently(s) ==
  /\ s \in open
  /\ REPORT = None /\ ~LAST_ERROR
  /\ UNCHANGED <<REPORT, LAST_ERROR>>
  /\ Close(s)

LoseConnection(s) ==
  /\ s \in open
  /\ REPORT = None /\ ~LAST_ERROR
  /\ LAST_ERROR' = TRUE
  /\ UNCHANGED REPORT
  /\ Close(s)

Ends(s) == Reported(s) \/ Failed(s) \/ LoseConnection(s)

Next ==
  \/ Submit \/ Example \/ Rescan \/ Popped \/ SwitchLanguage
  \/ \E s \in open : Progress(s) \/ Ends(s)

Spec == Init /\ [][Next]_vars

\* Every scan has a ceiling, and a stream that breaks reports an error.
FairSpec == Spec /\ \A s \in 1..MaxScans : WF_vars(Ends(s))

-----------------------------------------------------------------------------
TypeOK ==
  /\ scans \in 0..MaxScans
  /\ hostOf \in [1..MaxScans -> Hosts \cup {NoHost}]
  /\ \A s \in 1..scans : hostOf[s] \in Hosts
  /\ open \subseteq 1..scans
  /\ TARGET \in Hosts \cup {NoHost}
  /\ REPORT \in 0..scans
  /\ STREAM \in 0..scans
  /\ LAST_ERROR \in BOOLEAN /\ disabled \in BOOLEAN /\ progress \in BOOLEAN
  /\ cards \in BOOLEAN /\ empty \in BOOLEAN

(***************************************************************************)
(* Only the latest scan is listened to: a stream that was replaced         *)
(* delivers nothing any more, and STREAM is the one still open.            *)
(***************************************************************************)
OneStream == open = {STREAM} \ {None} /\ STREAM \in {None, scans}

(***************************************************************************)
(* A report displayed is the answer to the last scan started, never one    *)
(* that was overtaken.                                                     *)
(***************************************************************************)
LatestReport == REPORT # None => REPORT = scans

(***************************************************************************)
(* The scan buttons are blocked exactly while a scan runs, so a scan that  *)
(* ends, however it ends, can be followed by another.                      *)
(***************************************************************************)
ButtonsFollow == disabled <=> STREAM # None

(***************************************************************************)
(* A host with neither report nor error is being scanned: the page never   *)
(* waits for an answer nobody will give.                                   *)
(***************************************************************************)
NeverForgotten ==
  TARGET # NoHost /\ REPORT = None /\ ~LAST_ERROR => STREAM # None

(***************************************************************************)
(* A language switch on the start page must not leave a screen of empty    *)
(* cards above the hint, whatever happened before it.                      *)
(***************************************************************************)
NoEmptyCards == TARGET = NoHost /\ REPORT = None => ~cards /\ empty

\* The user is never locked out for good.
ButtonsReturn == disabled ~> ~disabled

-----------------------------------------------------------------------------
\* "Host currently displayed (null on the empty start page)": the report on
\* display is that host's.
ReportOfTarget == REPORT # None => TARGET = hostOf[REPORT]
=============================================================================
