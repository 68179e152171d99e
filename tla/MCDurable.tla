------------------------------ MODULE MCDurable ------------------------------
(* Small instances of Durable for TLC. *)
EXTENDS DurableProps

(* Two seeds of one fleet: one agent with a treasury and one or two        *)
(* operational subaccounts.  Both tapes rotate; they emit the same number  *)
(* of records per wake and differ in what is sent when.                    *)
MCDraw(maint, outs, picks, at, delay) ==
  [maint |-> maint, outs |-> outs, picks |-> picks, at |-> at, delay |-> delay]

MCSeed(subs, end, delays, tape) ==
  [mode |-> "hardened", rebalance |-> "rotate", hold |-> FALSE, kmin |-> 1, kmax |-> 2,
   subs |-> subs, start |-> 0, end |-> end, delays |-> delays, tape |-> tape]

SeedA == MCSeed(<<3>>, 2, <<1, 2, 2>>,
                <<MCDraw(TRUE, <<1>>, <<3, 2>>, <<1, 2>>, 2),
                  MCDraw(FALSE, <<1>>, <<1>>, <<2, 3>>, 1),
                  MCDraw(FALSE, <<1>>, <<1>>, <<1, 3>>, 2),
                  MCDraw(FALSE, <<1, 1>>, <<1>>, <<1, 2>>, 1)>>)
SeedB == MCSeed(<<3>>, 2, <<2, 2, 1>>,
                <<MCDraw(FALSE, <<1>>, <<1>>, <<2, 4>>, 2),
                  MCDraw(TRUE, <<1>>, <<2>>, <<1, 2>>, 1)>>)

SeedShort == MCSeed(<<2>>, 1, <<1, 1>>,
                    <<MCDraw(TRUE, <<1>>, <<2>>, <<1, 2>>, 1),
                      MCDraw(FALSE, <<1>>, <<1>>, <<2, 3>>, 1)>>)

(* The uninterrupted run, event by event, up to the first state that is    *)
(* done; MaxEvents is never reached by the seeds above.  (The singleton    *)
(* makes TLC evaluate each event once.)                                    *)
MaxEvents == 6
UninterruptedRun(c) ==
  LET run[n \in 0..MaxEvents] ==
        IF n = 0 THEN [sim |-> BuildFresh(c), ledger |-> << >>]
        ELSE LET p == run[n - 1]
                 w == CHOOSE x \in {Wake(c, p.sim, DrawAt(c, p.sim))} : x = x
             IN IF Done(c, p.sim) THEN p
                ELSE [sim |-> w.sim, ledger |-> p.ledger \o w.recs]
      final == CHOOSE n \in 0..MaxEvents :
                 Done(c, run[n].sim) /\ \A m \in 0..(n - 1) : ~Done(c, run[m].sim)
  IN [last   |-> final,
      sim    |-> [n \in 0..final |-> run[n].sim],
      ledger |-> [n \in 0..final |-> run[n].ledger]]

MCOneSeed == {SeedA}
MCShortSeed == {SeedShort}
MCTwoSeeds == {SeedA, SeedB}
MCGoldenShort == [c \in MCShortSeed |-> UninterruptedRun(c)]
MCGoldenOne == [c \in MCOneSeed |-> UninterruptedRun(c)]
MCGoldenTwo == [c \in MCTwoSeeds |-> UninterruptedRun(c)]

MCCommand(c, resume, every) == [cfg |-> c, resume |-> resume, every |-> every]
(* One user who always passes --resume, with varying cadence. *)
MCResumeOnly == {MCCommand(SeedA, TRUE, every) : every \in {1, 2}}
(* One run, resumed or started over. *)
MCEither == {MCCommand(SeedShort, r, 1) : r \in BOOLEAN}
(* Users of the same directory with and without --resume, of either seed. *)
MCShared == {MCCommand(c, r, 2) : c \in MCTwoSeeds, r \in BOOLEAN}
=============================================================================
