--------------------------- MODULE RadioEviction ----------------------------
(***************************************************************************)
(* RadioReassembly with a history of whose fragments arrived when, which   *)
(* says what the least-recently-touched choice of FindOrCreateReassembly   *)
(* is for: how much other traffic an incomplete message survives.  Across  *)
(* a wrap of _touchCounter it survives nothing that can be said: slots     *)
(* touched before it look newest until Stop resets them.                   *)
(***************************************************************************)
EXTENDS RadioReassembly

VARIABLES others,    \* for each message begun, and ended neither by the code nor by Stop, the
                     \* other messages that fragments came of since its last one
          wrapped    \* the touch counter has wrapped since the slots were reset

evictionVars == <<vars, others, wrapped>>

NoneBegun == [k \in {} |-> {}]

EvictionInit ==
    /\ Init
    /\ others = [n \in Node |-> NoneBegun]
    /\ wrapped = [n \in Node |-> FALSE]

Wraps(n) == wrapped[n] \/ touchCounter'[n] < touchCounter[n]

\* A fragment of k comes, after which the messages begun are these.
Follow(n, k, begun) ==
    /\ wrapped' = [wrapped EXCEPT ![n] = Wraps(n)]
    /\ others' = [others EXCEPT ![n] =
                     IF Wraps(n) THEN NoneBegun
                     ELSE [j \in begun |-> IF j = k THEN {} ELSE others[n][j] \union {k}]]

Begin(n, k) == Follow(n, k, DOMAIN others[n] \union {k})
End(n, k)   == Follow(n, k, DOMAIN others[n] \ {k})

EvictionNext ==
    \E n \in Node :
        \/ \E h \in Frame :
              \/ StoreFragment(n, h) /\ Begin(n, h.key)
              \/ RejectOversized(n, h) /\ End(n, h.key)
              \/ ResetMismatched(n, h) /\ End(n, h.key)
              \/ CompleteMessage(n, h) /\ End(n, h.key)
        \/ /\ Stop(n)
           /\ others' = [others EXCEPT ![n] = NoneBegun]
           /\ wrapped' = [wrapped EXCEPT ![n] = FALSE]

EvictionSpec == EvictionInit /\ [][EvictionNext]_evictionVars

-----------------------------------------------------------------------------
\* Fragments of fewer than MaxReassemblies other messages have arrived since
\* the last one of k.
UnderLittlePressure(n, k) == Cardinality(others[n][k]) < MaxReassemblies

\* A message that was begun is lost only to pressure: while fragments of
\* fewer than MaxReassemblies other messages have arrived since its last
\* one, its slot is kept - also when some of them were too large to keep.
KeptUnderPressure ==
    \A n \in Node : \A k \in DOMAIN others[n] : UnderLittlePressure(n, k) => Holding(n, k) # {}
=============================================================================
