----------------------------- MODULE PageCards ------------------------------
(***************************************************************************)
(* What the cards of the page show, beside the steps of Page: the render   *)
(* functions of public/app.js in their order, the skeletons that a new     *)
(* scan leaves in the place of all but the raw report, and the title. A    *)
(* card shows a report in a language, or nothing.                          *)
(***************************************************************************)
EXTENDS Page, Sequences

CONSTANT Languages

Blank == <<None, "none">>

VARIABLES
  LANG,
  shape,      \* of REPORT: has its certificate a leaf, did HTTPS answer
  filled,     \* what each card shows
  title       \* the host and language that updateSeoMeta wrote
drawn     == <<LANG, shape, filled, title>>
cardsVars == <<vars, drawn>>

\* render's functions, in the order in which it calls them.
Cards == <<"hero", "grade", "certificate", "chain", "protocols", "kex", "features",
           "http", "dns", "vulnerabilities", "ciphers", "simulation", "raw">>

Shapes == [leaf : BOOLEAN, reachable : BOOLEAN]

CardsInit ==
  /\ Init
  /\ LANG \in Languages
  /\ shape = [leaf |-> TRUE, reachable |-> TRUE]
  /\ filled = [i \in DOMAIN Cards |-> Blank]
  /\ title = <<NoHost, LANG>>
-----------------------------------------------------------------------------
\* renderHero reads http.hsts.longEnough of a report whose http may lack hsts.
Throws(i, report) == Cards[i] = "hero" /\ ~report.reachable

\* renderCertificate and renderHttp return early and leave what was there.
Fills(i, report) ==
  /\ Cards[i] = "certificate" => report.leaf
  /\ Cards[i] = "http" => report.reachable

\* render of a report: card by card, up to the first function that throws.
RenderCard(i, report) ==
  IF /\ \A j \in 1..i : ~Throws(j, report)
     /\ Fills(i, report)
    THEN <<REPORT', LANG'>> ELSE filled[i]

Draw ==
  filled' = [i \in DOMAIN Cards |-> IF REPORT' = None THEN filled[i] ELSE RenderCard(i, shape')]

\* Mutant: the cards are left as they are.
SkeletonsNone == filled' = filled

\* The raw report is neither a value nor one of the containers it empties.
Skeletons ==
  filled' = [i \in DOMAIN Cards |-> IF Cards[i] = "raw" THEN filled[i] ELSE Blank]

UpdateSeoMeta == title' = <<TARGET', LANG'>>

Started ==
  /\ Submit \/ Example \/ Rescan \/ \E host \in Hosts : StartScan(host)
  /\ UNCHANGED <<LANG, shape>>
  /\ Skeletons /\ UpdateSeoMeta

Emptied == ShowEmpty /\ UNCHANGED <<LANG, shape, filled>> /\ UpdateSeoMeta

Relabelled ==
  /\ SwitchLanguage
  /\ LANG' \in Languages \ {LANG}
  /\ UNCHANGED shape
  /\ UpdateSeoMeta /\ Draw

Progressed == (\E s \in open : Progress(s)) /\ UNCHANGED drawn

Ended ==
  /\ \E s \in open : Ends(s)
  /\ shape' \in IF REPORT' # REPORT THEN Shapes ELSE {shape}
  /\ UNCHANGED <<LANG, title>>
  /\ Draw

CardsNext == Started \/ Emptied \/ Relabelled \/ Progressed \/ Ended

CardsSpec == /\ CardsInit /\ [][CardsNext]_cardsVars
             /\ \A s \in 1..MaxScans : WF_cardsVars(Ended /\ Ends(s))
-----------------------------------------------------------------------------
(***************************************************************************)
(* Nothing of an earlier scan or of another language is left in the cards  *)
(* on display, whichever functions returned early or threw, and the title  *)
(* is that of the host. The raw report alone may be an earlier one, while  *)
(* a scan runs and under a report whose cards renderHero's error leaves    *)
(* undrawn.                                                                *)
(***************************************************************************)
NothingStale ==
  /\ title = <<TARGET, LANG>>
  /\ cards => \A i \in DOMAIN Cards :
       \/ filled[i] \in {Blank, <<REPORT, LANG>>}
       \/ Cards[i] = "raw" /\ (REPORT = None \/ ~shape.reachable)

(***************************************************************************)
(* REPORT is "The report currently displayed" (app.js:150): the raw report *)
(* below the other cards is no other one.                                  *)
(***************************************************************************)
RawIsReport ==
  REPORT # None => \A i \in DOMAIN Cards :
    Cards[i] = "raw" => filled[i] \in {Blank, <<REPORT, LANG>>}

(***************************************************************************)
(* "Without a report there is nothing to fill the cards with, so the grid  *)
(* stays hidden" (app.js:249-252): with one, they are filled, where there  *)
(* is something to fill them with. renderHttp shows an error for a server  *)
(* that HTTPS does not reach (app.js:559).                                 *)
(***************************************************************************)
CardsAreFilled ==
  REPORT # None => \A i \in DOMAIN Cards : filled[i] = Blank => ~Fills(i, shape)
=============================================================================
