----------------------------- MODULE MCSession ------------------------------
(***************************************************************************)
(* Two concurrent sessions, one with a tee and one without, that share a   *)
(* display channel with room for one message.  build fetches and then runs *)
(* an allow-failure step that exceeds its timeout (between its two         *)
(* statuses BuildKit sends a nil one); lint's one status reports a cached  *)
(* image and a step that failed.                                           *)
(***************************************************************************)
EXTENDS Session

Report(d, step, started, completed, cached, error) ==
  [digest |-> d, step |-> step, started |-> started, completed |-> completed,
   cached |-> cached, error |-> error]

MCStatuses ==
  [build |-> << << Report("fetch", "deps", TRUE, FALSE, FALSE, "none"),
                   Report("make", "flaky", TRUE, FALSE, FALSE, "none") >>,
                << >>,
                << Report("fetch", "deps", TRUE, TRUE, FALSE, "none"),
                   Report("make", "flaky", TRUE, TRUE, FALSE, "exit124") >> >>,
   lint  |-> << << Report("pull", "image", FALSE, FALSE, TRUE, "none"),
                   Report("vet", "check", TRUE, TRUE, FALSE, "exit") >> >>]

MCStepTimeouts == [build |-> {"make"}, lint |-> {}]

MCLenient == [s \in {"build"} |-> "flaky"]

MCNilStatus == {<<"build", 2>>}
=============================================================================
