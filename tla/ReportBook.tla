------------------------------ MODULE ReportBook ------------------------------
(***************************************************************************)
(* What the nodes from fixed costs to email delivery promise if runs do    *)
(* not execute at the same time: each acts in one indivisible step on the  *)
(* tables as they are then, and mails go out only for reports that wait    *)
(* for a verdict, which all of them get at once and for good.              *)
(*                                                                         *)
(* There are no nodes here that have read something and not yet stored it, *)
(* no attempts, checkpoints, failures or restarts.  Downstream implements  *)
(* this book, with all of those, as long as no two runs execute at once    *)
(* and none is resumed after another has executed in between.              *)
(***************************************************************************)
EXTENDS ReportTables

Init ==
    /\ processed = {}
    /\ settings \in BOOLEAN
    /\ matched = [t \in Txns |-> None]
    /\ summary = [r \in Runs |-> None]
    /\ recs = <<>> /\ reports = <<>>

Arrive(s) ==
    /\ processed' = processed \cup {s}
    /\ UNCHANGED <<settings, matched, summary, recs, reports>>

\* fixed_costs_reconciliation
Reconcile ==
    /\ \E plan \in Matches(IF Current = None THEN {} ELSE Open(Current)) :
        matched' = [t \in Txns |-> IF \E c \in Costs : plan[c] = t
                                   THEN CHOOSE c \in Costs : plan[c] = t
                                   ELSE matched[t]]
    /\ UNCHANGED <<processed, settings, summary, recs, reports>>

\* cashflow_calculation
Summarise(r) ==
    /\ \E paid \in Statuses(IF Current = None THEN {} ELSE RowsOf(Current), matched) :
        summary' = [summary EXCEPT ![r] = [of |-> Current, paid |-> paid]]
    /\ UNCHANGED <<processed, settings, matched, recs, reports>>

\* investment_analysis
Recommend(r) ==
    /\ settings /\ Current # None
    /\ LET offer == Proposal(Surplus[Current], Closing[Current], Total, Periods)
       IN \E parts \in Allocations(offer) :
            recs' = Append(recs, [by |-> r, of |-> Current,
                                  amount |-> RoundHalfUp(offer.num, offer.den),
                                  parts |-> parts, report |-> 0])
    /\ UNCHANGED <<processed, settings, matched, summary, reports>>

\* reporting: the pages, and the recommendation they show.
Report(r) ==
    /\ Current # None
    /\ \E paid \in Statuses(RowsOf(Current), matched) :
        LET Page(type, shown) ==
                [by |-> r, type |-> type, of |-> Current, paid |-> shown,
                 rec |-> LatestUnattached, delivery |-> "pending", copies |-> 0]
        IN reports' = reports \o
            (IF GenerateMonthly(EndDay[Current], MonthLength[Current])
             THEN <<Page("weekly", paid), Page("monthly", NoMatch)>>
             ELSE <<Page("weekly", paid)>>)
    /\ recs' = [k \in DOMAIN recs |->
                  IF k = LatestUnattached THEN [recs[k] EXCEPT !.report = Len(reports) + 1]
                  ELSE recs[k]]
    /\ UNCHANGED <<processed, settings, matched, summary>>

\* email_delivery: a copy reaches the mailbox, once or more, ...
Deliver ==
    /\ \E i \in Pending : reports' = [reports EXCEPT ![i].copies = @ + 1]
    /\ UNCHANGED <<processed, settings, matched, summary, recs>>

\* ... and all verdicts fall together; only what has arrived is called sent.
Settle ==
    /\ \E sent \in SUBSET {i \in Pending : reports[i].copies > 0} :
        reports' = Marked(sent, Pending \ sent)
    /\ UNCHANGED <<processed, settings, matched, summary, recs>>

Next ==
    \/ \E s \in Statements : Arrive(s)
    \/ \E r \in Runs : Summarise(r) \/ Recommend(r) \/ Report(r)
    \/ Reconcile \/ Deliver \/ Settle

Spec == Init /\ [][Next]_db

=============================================================================
