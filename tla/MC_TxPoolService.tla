-------------------------- MODULE MC_TxPoolService --------------------------
(* Small instances of the tx-pool service for TLC.                        *)
EXTENDS TxPoolService

CONSTANTS c1, c2, t1, t2, u1, u2

MCCallers == {c1, c2}
MCTxs == {t1, t2}
MCUncles == {u1, u2}

\* A call with the fields its variant does not use left at a default.
MkCall(k, txs, target, detached, uncle) ==
  [kind |-> k, txs |-> txs, target |-> target, detached |-> detached, uncle |-> uncle]

\* Every read variant asking about t1; a submit, a notify of txs, plugs
\* into both targets; a reorg that commits t1 and one that detaches the
\* proposal of t1; an uncle.
MCCalls ==
  {MkCall(k, {t1}, "Pending", {}, u1) : k \in ReadKinds}
  \cup {MkCall("SubmitTxs", {t1}, "Pending", {}, u1),
        MkCall("NotifyTxs", {t2}, "Pending", {}, u1),
        MkCall("PlugEntry", {t1}, "Proposed", {}, u1),
        MkCall("PlugEntry", {t2}, "Pending", {}, u1),
        MkCall("ChainReorg", {t1}, "Pending", {}, u1),
        MkCall("ChainReorg", {}, "Pending", {t1}, u1),
        MkCall("NewUncle", {}, "Pending", {}, u1)}

\* A request of each lock mode and a notify of each kind.
MCLiveCalls ==
  {MkCall("FetchTxs", {t1}, "Pending", {}, u1),
   MkCall("PlugEntry", {t1}, "Proposed", {}, u1),
   MkCall("ChainReorg", {}, "Pending", {t1}, u1),
   MkCall("NewUncle", {}, "Pending", {}, u1)}

\* Two announcements of different uncles, and a reorg followed by a read.
MCUncleCalls ==
  {MkCall("NewUncle", {}, "Pending", {}, u) : u \in MCUncles}
MCReorgCalls ==
  {MkCall("ChainReorg", {t1}, "Pending", {}, u1),
   MkCall("FetchTxs", {t1}, "Pending", {}, u1),
   MkCall("SubmitTxs", {t1}, "Pending", {}, u1)}
=============================================================================
