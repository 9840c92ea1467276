------------------------------- MODULE MCReads -------------------------------
(***************************************************************************)
(* DayReads and SmartCity for TLC.                                         *)
(*                                                                         *)
(* They share no state, and neither do the three kinds of requests of      *)
(* DayReads (absences write the records, histories the history, the page   *)
(* nothing): what one kind does is the same whether or not the others run  *)
(* in between, so each behaviour has requests of one kind, focus says      *)
(* which, several at a time.                                               *)
(***************************************************************************)
EXTENDS DayReads, SmartCity, TLC

VARIABLE focus

CONSTANTS w1, w2, n1, n2, m1, m2, p1, p2, p3

MCStarts == {60, 90}
MCMoments == 0 .. 300

ReadsMoves ==
    \/ Meanwhile
    \/ \E w \in Workers :
        \/ focus = "absences" /\ Absences(w)
        \/ focus = "history" /\ History(w)
        \/ focus = "page" /\ Page(w)

\* The half that does not move keeps one initial state.
CityRests == mahallas = {} /\ employees = << >> /\ view = NoView

MCInit ==
    /\ ReadsInit
    /\ \/ focus \in {"absences", "history", "page"} /\ CityRests
       \/ focus = "city" /\ CityInit

MCNext ==
    \/ focus # "city" /\ ReadsMoves /\ UNCHANGED <<cityVars, focus>>
    \/ focus = "city" /\ CityNext /\ UNCHANGED <<readVars, focus>>

MCSpec == MCInit /\ [][MCNext]_<<readVars, cityVars, focus>>

AllReadsTypeOK == ReadsTypeOK /\ CityTypeOK

\* What one answer says adds up, with itself and with the answer next to it: the
\* page, its Excel sheet, the statistics, and the times and days in all of them.
AnswersAddUp == PageAddsUp /\ SheetsAgree /\ SummaryAddsUp /\ OnlyTheOffset

MCSymmetry == Permutations({w1, w2}) \cup Permutations({n1, n2})
=============================================================================
