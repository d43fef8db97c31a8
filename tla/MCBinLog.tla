------------------------------ MODULE MCBinLog ------------------------------
(***************************************************************************)
(* Two clients and a dumper, with what may happen in several combinations. *)
(***************************************************************************)
EXTENDS BinLog, TLC

CONSTANTS t1, t2, d1

MCThreads == {t1, t2}
MCDumpers == {d1}
MCPlans == {{"flush", "kill"}, {"flush", "purge"}, {"purge", "reset"}, {"flush", "crash"}, {"flush", "openfails"}}
=============================================================================
