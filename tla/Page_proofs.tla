----------------------------- MODULE Page_proofs -----------------------------
(***************************************************************************)
(* Theorems about the page and its cards, for any hosts, any languages and *)
(* any number of scans.                                                    *)
(***************************************************************************)
EXTENDS PageCards, TLAPS

(***************************************************************************)
(* The inductive invariant: the properties lean on each other, and on the  *)
(* fact that while a stream is open nothing has answered it. That is also  *)
(* why the early return of onerror is never taken.                         *)
(***************************************************************************)
Unanswered == STREAM # None => REPORT = None /\ ~LAST_ERROR

IInv ==
  /\ TypeOK
  /\ OneStream
  /\ Unanswered
  /\ LatestReport
  /\ ButtonsFollow
  /\ NeverForgotten
  /\ NoEmptyCards

\* Starting a scan, from whichever handler, keeps the invariant.
LEMMA StartKeeps ==
  ASSUME IInv, NEW host \in Hosts, StartScan(host)
  PROVE  IInv'
  <1> USE PageAssumption DEF IInv, None
  <1>1. scans \in Nat /\ scans' = scans + 1 /\ scans' \in 1..MaxScans
    BY DEF StartScan, TypeOK
  <1>2. open' = {scans'}
    BY DEF StartScan, OneStream
  <1>3. TypeOK'
    <2>1. /\ hostOf' \in [1..MaxScans -> Hosts \cup {NoHost}]
          /\ \A s \in 1..scans' : hostOf'[s] \in Hosts
      BY <1>1 DEF StartScan, TypeOK
    <2>2. scans' \in 0..MaxScans /\ open' \subseteq 1..scans' /\ STREAM' \in 0..scans'
      BY <1>1, <1>2 DEF StartScan
    <2>3. TARGET' \in Hosts \cup {NoHost} /\ REPORT' \in 0..scans'
      BY <1>1 DEF StartScan
    <2> QED
      BY <2>1, <2>2, <2>3, Zenon DEF StartScan, TypeOK
  <1>4. OneStream'
    BY <1>1, <1>2 DEF StartScan, OneStream
  <1> QED
    BY <1>1, <1>3, <1>4 DEF StartScan, Unanswered, LatestReport, ButtonsFollow,
                            NeverForgotten, NoEmptyCards

\* Going back to the start page keeps it, though the stream stays open.
LEMMA EmptyKeeps == ASSUME IInv, ShowEmpty PROVE IInv'
  <1> USE PageAssumption DEF IInv, None
  <1>1. TypeOK'
    <2>1. REPORT' \in 0..scans
      BY DEF ShowEmpty, TypeOK
    <2> QED
      BY <2>1, Zenon DEF ShowEmpty, streams, TypeOK
  <1>2. OneStream' /\ LatestReport'
    BY DEF ShowEmpty, streams, OneStream, LatestReport
  <1>3. Unanswered' /\ ButtonsFollow' /\ NeverForgotten' /\ NoEmptyCards'
    BY Zenon DEF ShowEmpty, streams, Unanswered, ButtonsFollow, NeverForgotten, NoEmptyCards
  <1> QED
    BY <1>1, <1>2, <1>3

\* So does the end of a stream, whatever it ended with.
LEMMA EndKeeps ==
  ASSUME IInv, NEW s \in open, Ends(s)
  PROVE  IInv'
  <1> USE PageAssumption DEF IInv, None
  <1>1. s = scans /\ STREAM = scans /\ s \in 1..scans /\ scans \in Nat
    BY DEF OneStream, TypeOK
  <1>2. /\ Close(s)
        /\ REPORT = None /\ ~LAST_ERROR
        /\ \/ REPORT' = s /\ UNCHANGED LAST_ERROR
           \/ LAST_ERROR' = TRUE /\ UNCHANGED REPORT
    BY <1>1 DEF Ends, Reported, Failed, LoseConnection, Unanswered
  <1>3. open' = {}
    BY <1>1, <1>2 DEF Close, OneStream
  <1>4. TypeOK'
    BY <1>1, <1>2, <1>3 DEF Close, Render, TypeOK
  <1>5. OneStream' /\ Unanswered' /\ LatestReport' /\ ButtonsFollow'
    BY <1>1, <1>2, <1>3 DEF Close, OneStream, Unanswered, LatestReport, ButtonsFollow
  <1>6. NeverForgotten' /\ NoEmptyCards'
    BY <1>1, <1>2 DEF Close, Render, NeverForgotten, NoEmptyCards
  <1> QED
    BY <1>4, <1>5, <1>6

\* Progress and a language switch only change what is shown.
LEMMA ShowKeeps ==
  ASSUME IInv, SwitchLanguage \/ \E s \in open : Progress(s)
  PROVE  IInv'
  <1> USE PageAssumption DEF IInv, None, SwitchLanguage, Progress, Render, streams, shown
  <1>1. TypeOK'
    BY DEF TypeOK
  <1>2. OneStream' /\ Unanswered' /\ LatestReport' /\ ButtonsFollow'
    BY DEF OneStream, Unanswered, LatestReport, ButtonsFollow
  <1>3. NeverForgotten' /\ NoEmptyCards'
    <2>1. CASE SwitchLanguage
      BY <2>1, Zenon DEF NeverForgotten, NoEmptyCards
    <2>2. CASE \E s \in open : Progress(s)
      <3>1. UNCHANGED <<TARGET, REPORT, LAST_ERROR, STREAM, cards, empty>>
        BY <2>2
      <3> QED
        BY <3>1, Zenon DEF NeverForgotten, NoEmptyCards
    <2> QED
      BY <2>1, <2>2
  <1> QED
    BY <1>1, <1>2, <1>3

(***************************************************************************)
(* The invariant holds whatever the user and the streams do.               *)
(***************************************************************************)
THEOREM Invariance == Spec => []IInv
  <1>1. Init => IInv
    <2>1. Init => TypeOK
      <3> SUFFICES ASSUME Init PROVE TypeOK
        OBVIOUS
      <3>1. scans \in 0..MaxScans /\ REPORT \in 0..scans /\ STREAM \in 0..scans /\ 1..scans = {}
        BY PageAssumption DEF Init, None
      <3> QED
        BY <3>1, Zenon DEF Init, TypeOK
    <2>3. Init => OneStream /\ Unanswered /\ LatestReport
      BY Zenon DEF Init, OneStream, Unanswered, LatestReport, None
    <2>2. Init => ButtonsFollow /\ NeverForgotten /\ NoEmptyCards
      BY Zenon DEF Init, ButtonsFollow, NeverForgotten, NoEmptyCards
    <2> QED
      BY <2>1, <2>2, <2>3 DEF IInv
  <1>2. IInv /\ [Next]_vars => IInv'
    <2> SUFFICES ASSUME IInv, [Next]_vars PROVE IInv'
      OBVIOUS
    <2>1. CASE Submit \/ Example
      BY <2>1, StartKeeps DEF Submit, Example
    <2>2. CASE Rescan
      <3>1. TARGET \in Hosts
        BY <2>2 DEF Rescan, IInv, TypeOK
      <3> QED
        BY <2>2, <3>1, StartKeeps DEF Rescan
    <2>3. CASE Popped
      BY <2>3, StartKeeps, EmptyKeeps DEF Popped
    <2>4. CASE SwitchLanguage \/ \E s \in open : Progress(s)
      BY <2>4, ShowKeeps
    <2>5. CASE \E s \in open : Ends(s)
      BY <2>5, EndKeeps
    <2>6. CASE UNCHANGED vars
      BY <2>6 DEF vars, streams, shown, IInv, TypeOK, OneStream, Unanswered,
                  LatestReport, ButtonsFollow, NeverForgotten, NoEmptyCards
    <2> QED
      BY <2>1, <2>2, <2>3, <2>4, <2>5, <2>6 DEF Next
  <1> QED
    BY <1>1, <1>2, PTL DEF Spec

(***************************************************************************)
(* Every variable of the page keeps its type.                              *)
(***************************************************************************)
THEOREM TypeCorrect == Spec => []TypeOK
  BY Invariance, PTL DEF IInv

(***************************************************************************)
(* No stream but the latest delivers anything to the page.                 *)
(***************************************************************************)
THEOREM OneStreamAtATime == Spec => []OneStream
  BY Invariance, PTL DEF IInv

(***************************************************************************)
(* No report of a scan that was overtaken is ever displayed.               *)
(***************************************************************************)
THEOREM ReportsAreLatest == Spec => []LatestReport
  BY Invariance, PTL DEF IInv

(***************************************************************************)
(* The scan buttons are blocked exactly while a scan runs.                 *)
(***************************************************************************)
THEOREM ButtonsFollowScans == Spec => []ButtonsFollow
  BY Invariance, PTL DEF IInv

(***************************************************************************)
(* A host on display has a report, an error or a scan under way.           *)
(***************************************************************************)
THEOREM NoHostIsForgotten == Spec => []NeverForgotten
  BY Invariance, PTL DEF IInv

(***************************************************************************)
(* The start page never carries a grid of empty cards.                     *)
(***************************************************************************)
THEOREM StartPageIsClean == Spec => []NoEmptyCards
  BY Invariance, PTL DEF IInv

-----------------------------------------------------------------------------
(***************************************************************************)
(* The page with its cards is the page: every handler that draws is a      *)
(* handler of Page, and what it draws changes nothing else.                *)
(***************************************************************************)
LEMMA CardsStep == CardsNext => Next
  BY DEF CardsNext, Started, Emptied, Relabelled, Progressed, Ended, Next, Popped

THEOREM CardsArePage == CardsSpec => Spec
<1>1. CardsInit => Init
  BY DEF CardsInit
<1>2. [CardsNext]_cardsVars => [Next]_vars
  BY CardsStep DEF cardsVars
<1> QED
  BY <1>1, <1>2, PTL DEF CardsSpec, Spec

(***************************************************************************)
(* What the cards hold. While a stream is open all but the raw report are  *)
(* skeletons, so the functions that return early leave nothing but a       *)
(* skeleton behind; with a report each holds what its function draws of    *)
(* it; and the grid is shown for one of the two.                           *)
(***************************************************************************)
Draws(i) == (\A j \in 1..i : ~Throws(j, shape)) /\ Fills(i, shape)

CardsInv ==
  /\ title = <<TARGET, LANG>>
  /\ STREAM # None => \A i \in DOMAIN Cards : Cards[i] # "raw" => filled[i] = Blank
  /\ REPORT # None => \A i \in DOMAIN Cards :
       /\ Draws(i) => filled[i] = <<REPORT, LANG>>
       /\ ~Draws(i) /\ Cards[i] # "raw" => filled[i] = Blank
  /\ cards => REPORT # None \/ STREAM # None

\* A new scan puts skeletons everywhere but in the raw report.
LEMMA StartedKeeps == ASSUME IInv, CardsInv, Started PROVE CardsInv'
<1>1. PICK host \in Hosts \cup {NoHost} : StartScan(host)
  BY DEF Started, Submit, Example, Rescan, IInv, TypeOK
<1>2. REPORT' = None /\ STREAM' = scans + 1 /\ scans \in Nat
  BY <1>1 DEF StartScan, IInv, TypeOK
<1>3. /\ \A i \in DOMAIN Cards : Cards[i] # "raw" => filled'[i] = Blank
      /\ title' = <<TARGET', LANG'>>
  BY DEF Started, Skeletons, UpdateSeoMeta
<1> QED
  BY <1>2, <1>3 DEF CardsInv, None

\* Another language draws the same cards again.
LEMMA RelabelledKeeps == ASSUME IInv, CardsInv, Relabelled PROVE CardsInv'
<1>1. /\ REPORT' = REPORT /\ STREAM' = STREAM /\ TARGET' = TARGET /\ shape' = shape
      /\ cards' = (REPORT # None) /\ title' = <<TARGET', LANG'>> /\ Draw
  BY DEF Relabelled, SwitchLanguage, Render, streams, UpdateSeoMeta
<1>2. CASE REPORT = None
  <2>1. filled' = [i \in DOMAIN Cards |-> filled[i]]
    BY <1>1, <1>2 DEF Draw
  <2> QED
    BY <1>1, <1>2, <2>1 DEF CardsInv
<1>3. CASE REPORT # None
  <2>1. STREAM = None
    BY <1>3 DEF IInv, Unanswered
  <2>2. \A i \in DOMAIN Cards :
          filled'[i] = IF Draws(i) THEN <<REPORT', LANG'>> ELSE filled[i]
    BY <1>1, <1>3 DEF Draw, RenderCard, Draws
  <2>3. \A i \in DOMAIN Cards : ~Draws(i) /\ Cards[i] # "raw" => filled[i] = Blank
    BY <1>3 DEF CardsInv
  <2>4. \A i : Draws(i)' <=> Draws(i)
    BY <1>1 DEF Draws, Throws, Fills
  <2> QED
    BY <1>1, <1>3, <2>1, <2>2, <2>3, <2>4 DEF CardsInv
<1> QED
  BY <1>2, <1>3

\* The end of a stream draws its report over the skeletons.
LEMMA EndedKeeps == ASSUME IInv, CardsInv, Ended PROVE CardsInv'
<1>1. PICK s \in open : Ends(s)
  BY DEF Ended
<1>2. s # None /\ STREAM = s /\ REPORT = None
  BY <1>1 DEF IInv, OneStream, Unanswered
<1>3. /\ STREAM' = None /\ TARGET' = TARGET /\ cards' = (REPORT' # None)
      /\ LANG' = LANG /\ title' = title /\ Draw
  BY <1>1 DEF Ends, Reported, Failed, LoseConnection, Close, Render, Ended
<1>4. \A i \in DOMAIN Cards : Cards[i] # "raw" => filled[i] = Blank
  BY <1>2 DEF CardsInv
<1>5. REPORT' # None => \A i \in DOMAIN Cards :
        /\ Draws(i)' => filled'[i] = <<REPORT', LANG'>>
        /\ ~Draws(i)' /\ Cards[i] # "raw" => filled'[i] = Blank
  BY <1>3, <1>4 DEF Draw, RenderCard, Draws, Throws, Fills
<1> QED
  BY <1>3, <1>5 DEF CardsInv

\* The start page hides the grid, and progress draws nothing.
LEMMA HiddenKeeps ==
  ASSUME IInv, CardsInv, Emptied \/ Progressed \/ UNCHANGED cardsVars
  PROVE  CardsInv'
<1>1. CASE Emptied
  <2>1. REPORT' = None /\ STREAM' = STREAM /\ ~cards' /\ filled' = filled /\ title' = <<TARGET', LANG'>>
    BY <1>1 DEF Emptied, ShowEmpty, streams, UpdateSeoMeta
  <2> QED
    BY <2>1 DEF CardsInv
<1>2. CASE Progressed \/ UNCHANGED cardsVars
  <2>1. UNCHANGED <<drawn, REPORT, STREAM, TARGET, cards>>
    BY <1>2 DEF Progressed, Progress, streams, shown, cardsVars, vars
  <2> QED
    BY <2>1 DEF CardsInv, drawn, Draws, Throws, Fills
<1> QED
  BY <1>1, <1>2

(***************************************************************************)
(* Nothing of an earlier scan or of another language is left in the cards  *)
(* on display, whichever of their functions return early or throw, and the *)
(* title names the host; but for the raw report, which the skeletons spare *)
(* and which a report that HTTPS did not reach does not come to draw       *)
(* (app.js:91-105, app.js:249-310, app.js:391).                            *)
(***************************************************************************)
THEOREM CardsAreCurrent == CardsSpec => []NothingStale
<1>1. CardsInit => CardsInv
  BY DEF CardsInit, Init, CardsInv
<1>2. IInv /\ CardsInv /\ [CardsNext]_cardsVars => CardsInv'
  BY StartedKeeps, RelabelledKeeps, EndedKeeps, HiddenKeeps DEF CardsNext
<1>3. IInv /\ CardsInv => NothingStale
  <2> SUFFICES ASSUME IInv, CardsInv, cards, NEW i \in DOMAIN Cards
               PROVE  \/ filled[i] \in {Blank, <<REPORT, LANG>>}
                      \/ Cards[i] = "raw" /\ (REPORT = None \/ ~shape.reachable)
    BY DEF CardsInv, NothingStale
  <2>1. CASE Cards[i] # "raw"
    BY <2>1 DEF CardsInv
  <2>2. CASE Cards[i] = "raw" /\ REPORT # None /\ shape.reachable
    <3>1. Draws(i)
      BY <2>2 DEF Draws, Throws, Fills
    <3> QED
      BY <2>2, <3>1 DEF CardsInv
  <2> QED
    BY <2>1, <2>2
<1>4. CardsSpec => []IInv
  BY CardsArePage, Invariance, PTL
<1> QED
  BY <1>1, <1>2, <1>3, <1>4, PTL DEF CardsSpec
=============================================================================
