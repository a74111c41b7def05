--------------------------------- MODULE Ante ---------------------------------
(***************************************************************************)
(* x/core: the ante handler, and the store it reads and writes.            *)
(*                                                                         *)
(* A context is what the decorators see besides the store: the header's    *)
(* height and chain id, and the mode.  A decorator that refuses a          *)
(* transaction is a predicate that does not hold; nothing of a refused     *)
(* transaction is written, so the effects need only be stated for the      *)
(* transactions that pass all of them.                                     *)
(***************************************************************************)
EXTENDS Integers, Sequences, FiniteSets, SequencesExt

CONSTANTS Acc,         \* addresses
          MainDenom,   \* denomination of the fees
          ChainID, NoChainID, NoKey,
          AccNum,      \* account numbers: [Acc -> Nat]
          MinGasPrice, \* minimal gas price of the node, 0 when not configured
          TxSizeGas,   \* gas for the size of a transaction
          SigGas       \* gas for the verification of its signatures

\* A gas meter without limit: a transaction at height 0, a simulation.
NoLimit == -1

OutOfGas(limit, used) == limit # NoLimit /\ used > limit

GasToLimit(limit, used) == IF OutOfGas(limit, used) THEN limit ELSE used

\* The gas that SetUpContext allows a transaction.
GasLimit(c, tx) == IF c.mode = "simulate" \/ c.height = 0 THEN NoLimit ELSE tx.gas

Signers(tx) == ToSet(tx.signers)

\* DenomDecorator: above height 0 a fee is required, and in the main denomination.
DenomDecorator(c, tx) == c.height > 0 => tx.fee # 0 /\ tx.denom = MainDenom

\* MempoolFeeDecorator (SDK): the node's own minimum, for CheckTx and ReCheckTx.
MempoolFeeDecorator(c, tx) ==
  c.mode \in {"check", "recheck"} => tx.fee >= MinGasPrice * tx.gas

\* ValidateBasicDecorator (SDK): as many signatures as signers, not on recheck.
ValidateBasicDecorator(c, tx) ==
  c.mode # "recheck" => tx.sigs # <<>> /\ Len(tx.sigs) = Len(tx.signers)

\* GetSignerAcc, for every signer.
SignersExist(st, tx) == Signers(tx) \subseteq st.accs

\* The public key of signer i after SetPubKeyDecorator.
KeyOf(st, tx, i) == IF st.keys[tx.signers[i]] # NoKey THEN st.keys[tx.signers[i]] ELSE tx.keys[i]

\* SetPubKeyDecorator: a key that comes with the transaction belongs to the
\* signer (a simulation does not care) and the signer has an account.
SetPubKeyDecorator(c, st, tx) ==
  \A i \in DOMAIN tx.signers :
    tx.keys[i] # NoKey \/ c.mode = "simulate" =>
      /\ c.mode = "simulate" \/ tx.keys[i] = tx.signers[i]
      /\ tx.signers[i] \in st.accs

FeePayer(tx) == tx.signers[1]

\* DeductFeeDecorator: the first signer has an account and can pay.
DeductFeeDecorator(st, tx) ==
  FeePayer(tx) \in st.accs /\ tx.fee <= st.coins[FeePayer(tx)]

\* SigGasConsumeDecorator: the cost of a signature depends on a key, so there
\* has to be one (a simulation takes a dummy).
SigGasConsumeDecorator(c, st, tx) ==
  /\ SignersExist(st, tx)
  /\ c.mode = "simulate" \/ \A i \in DOMAIN tx.signers : KeyOf(st, tx, i) # NoKey

\* Defect: the sequence is not part of what is signed.
SigVerificationAnySequence(c, st, tx) ==
  c.mode # "recheck" =>
    /\ Len(tx.sigs) = Len(tx.signers)
    /\ SignersExist(st, tx)
    /\ \A i \in DOMAIN tx.signers :
         tx.sigs[i].key = KeyOf(st, tx, i) /\ tx.sigs[i].chain = c.chain

\* SigVerificationDecorator: not on recheck.  What is signed holds the chain
\* id, the account number (0 in a context of height 0) and the sequence.
SigVerificationDecorator(c, st, tx) ==
  c.mode # "recheck" =>
    /\ Len(tx.sigs) = Len(tx.signers)
    /\ SignersExist(st, tx)
    /\ c.mode = "simulate" \/
       \A i \in DOMAIN tx.signers :
         LET a == tx.signers[i]
         IN  /\ tx.sigs[i].key = KeyOf(st, tx, i)
             /\ tx.sigs[i].chain = c.chain
             /\ tx.sigs[i].num = IF c.height = 0 THEN 0 ELSE AccNum[a]
             /\ tx.sigs[i].seq = st.seq[a]

\* What the decorators before ConsumeTxSizeGasDecorator ask for.
AdmittedUnread(c, tx) ==
  DenomDecorator(c, tx) /\ MempoolFeeDecorator(c, tx) /\ ValidateBasicDecorator(c, tx)

\* The gas a refused transaction has used, up to its limit: none before its
\* size is charged for, and none at all against the empty meter that
\* DenomDecorator installs.
RefusedGas(c, st, tx) ==
  IF ~AdmittedUnread(c, tx) THEN 0
  ELSE GasToLimit(GasLimit(c, tx),
         IF /\ SetPubKeyDecorator(c, st, tx) /\ DeductFeeDecorator(st, tx)
            /\ SigGasConsumeDecorator(c, st, tx)
         THEN TxSizeGas + SigGas ELSE TxSizeGas)

\* The chain of decorators accepts the transaction.
AnteHandler(c, st, tx) ==
  /\ AdmittedUnread(c, tx)
  /\ SetPubKeyDecorator(c, st, tx)
  /\ DeductFeeDecorator(st, tx)
  /\ SigGasConsumeDecorator(c, st, tx)
  /\ SigVerificationDecorator(c, st, tx)
  /\ ~OutOfGas(GasLimit(c, tx), TxSizeGas + SigGas)

\* SetPubKeyDecorator's write.
SetPubKeys(st, tx) ==
  [a \in Acc |-> IF \E i \in DOMAIN tx.signers : tx.signers[i] = a /\ st.keys[a] = NoKey
                 THEN LET i == CHOOSE i \in DOMAIN tx.signers : tx.signers[i] = a IN tx.keys[i]
                 ELSE st.keys[a]]

\* DeductFees (SDK): the fee goes to the fee collector.
DeductFees(st, tx) == [st.coins EXCEPT ![FeePayer(tx)] = @ - tx.fee]

\* IncrementSequenceDecorator: of every signer.
IncrementSequences(st, tx) ==
  [a \in Acc |-> IF a \in Signers(tx) THEN st.seq[a] + 1 ELSE st.seq[a]]

\* The store after the ante handler.
Charged(st, tx) ==
  [st EXCEPT !.keys      = SetPubKeys(st, tx),
             !.coins     = DeductFees(st, tx),
             !.collected = @ + tx.fee,
             !.seq       = IncrementSequences(st, tx)]

===============================================================================
