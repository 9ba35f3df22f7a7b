------------------------------ MODULE MCPayments ------------------------------
(* Small instances of the two ways USDC is paid: tips, where the sender can pay the small  *)
(* one twice or the large one once, and the sends of the wallet page.  A behaviour is of   *)
(* one of them, which MCInit chooses; the variables of the other rest.                     *)
EXTENDS Payments, WalletPage, TLC

CONSTANTS small, large, nobody, Ways, p1, p2, p3, k1, k2, k3

VARIABLE way

MCAmountOf == [t \in Transfer |-> IF t = large THEN 2 ELSE 1]
MCCost     == (small :> 1) @@ (large :> 2)

MCInit == way \in Ways /\ Init /\ WalletInit

MCNext == /\ UNCHANGED way
          /\ \/ way = "tip"  /\ Next /\ UNCHANGED walletVars
             \/ way = "send" /\ WalletNext /\ UNCHANGED vars

MCSpec == MCInit /\ [][MCNext]_<<way, vars, walletVars>>

\* Attempts and keys are interchangeable: they are taken in order.
InOrder ==
    /\ pc[p3] # "idle" => pc[p2] # "idle"
    /\ pc[p2] # "idle" => pc[p1] # "idle"
    /\ LET drawn == {req[q].key : q \in Attempt}
       IN  (k3 \in drawn => k2 \in drawn) /\ (k2 \in drawn => k1 \in drawn)

\* Bounds of the tip page: two presses meet a fault; one asks for what cannot be paid; one
\* tip is left running, while the client has given up on none.
FewTips ==
    LET hopeless == {a \in Attempt : req[a].transfer = nobody}
        faulty   == timedOut \cup {a \in Attempt : pc[a] \in {"failed", "crashed"}}
    IN  /\ Cardinality(faulty) <= 2 /\ Cardinality(hopeless) <= 1
        /\ left # {} => Cardinality(left) = 1 /\ timedOut = {} /\ hopeless = {}

\* Bounds of the wallet page: reads in flight; a send is followed while nothing was earned
\* and only the USDC card has failed, and on the creator's page if it was opened first.
Few == /\ InOrder
       /\ FewTips
       /\ Cardinality(reads) <= 3
       /\ send[1].pc # "idle" => earned = 0 /\ \A k \in {"ink", "ledger"} : ~card[k].failed
       /\ send[1].pc # "idle" /\ page = 0 => walletVisits = 1

\* While a card of the wallet page is read, its sends and its dialog rest.
ReadsFirst == reads # {} => UNCHANGED <<sendOpen, send>>

\* A change of the amount is taken just before the press that submits it, for nothing else
\* looks at the key; and the page is opened anew while a tip is running, for otherwise that
\* is such a change.
ClearedAtOnce ==
    /\ keyRef # None /\ keyRef' = None =>
          \/ stage' \in {"success", "idle"}
          \/ ~Submitting /\ \E a \in Attempt : pc[a] = "idle"
    /\ stage = "error" /\ keyRef = None /\ left = {} => keyRef' # None
    /\ stage' = "idle" => stage = "idle" \/ left' # left

Reduced == ReadsFirst /\ ClearedAtOnce
=============================================================================
