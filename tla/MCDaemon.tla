------------------------------ MODULE MCDaemon ------------------------------
(* Instance of Daemon for TLC: three processes.  Which process executes    *)
(* which command of a mix does not matter, so each mix is listed once.     *)
EXTENDS Daemon, Sequences

MCMixes == {<<"start", "run", "stop">>, <<"start", "stop", "stop">>,
            <<"nodaemon", "start", "status">>}
=============================================================================
