--------------------------------- MODULE MCVm ---------------------------------
(* A small instance of Vm. *)
EXTENDS Vm

Code(reads, path, deletes, gas, aborts, events) ==
  [reads |-> reads, writes |-> <<[path |-> path, deletes |-> deletes]>>, gas |-> gas,
   aborts |-> aborts, events |-> events]

Copy   == Code("p", "q", FALSE, 1, FALSE, <<>>)
Stamp  == Code("h", "p", FALSE, 1, FALSE, <<<<1, 2, 3, 3>>>>)
Forget == Code("q", "q", TRUE, 2, FALSE, <<>>)
Aborts == Code("p", "p", TRUE, 1, TRUE, <<>>)

MCGenesisValues == [x \in Paths |-> IF x = "p" THEN 0 ELSE NoValue]

MCTxs ==
  {[msgs |-> <<<<Stamp>>, <<Copy>>>>, limit |-> 9],       \* the second message sees the first
   [msgs |-> <<<<Copy, Forget>>>>, limit |-> 9],          \* one deployment of two modules
   [msgs |-> <<<<Copy>>, <<Aborts>>, <<Forget>>>>, limit |-> 6]}  \* no gas for the last write

MCProposals == {[code |-> Forget, height |-> 2], [code |-> Stamp, height |-> 3]}
===============================================================================
