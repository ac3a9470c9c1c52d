---------------------------- MODULE EthSyncProofs ----------------------------
(***************************************************************************)
(* The workers and the pallet together, proved for any number of nodes,    *)
(* workers, contracts and logs: what the workers may pass over, the order  *)
(* in which logs take effect, and that the whole is the abstract bridge.   *)
(***************************************************************************)
EXTENDS EthSync, AccountsProofs

(* Logs, contracts and the first block. *)
LEMMA PartnerFacts ==
    ASSUME NEW c \in Contracts
    PROVE  /\ Contracts \subseteq Nat \ {0}
           /\ 1 \in Contracts
           /\ DOMAIN Partners[c] \subseteq Nat
           /\ \A i \in DOMAIN Partners[c] :
                /\ Partners[c][i] \in Events
                /\ Number(c, i) \in Nat
                /\ Number(c, i) > 0
<1>1. /\ Partners[c] \in Seq(Events)
      /\ Contracts = 1 .. Len(Partners)
      /\ Len(Partners) \in Nat
      /\ Len(Partners) # 0
  BY PartnersHaveLogs DEF Contracts
<1>2. ASSUME NEW i \in DOMAIN Partners[c]
      PROVE  /\ i \in Nat
             /\ Partners[c][i] \in Events
             /\ Number(c, i) \in Nat
             /\ Number(c, i) > 0
  <2>1. i \in Nat /\ Partners[c][i] \in Events
    BY <1>1
  <2>2. Partners[c][i].block_number \in Nat
    BY <2>1, EventsAreLogs DEF EthLockUpdate
  <2> QED
    BY <2>1, <2>2, PartnersHaveLogs DEF Number, Contracts
<1> QED
  BY <1>1, <1>2

LEMMA FinalBlockType ==
    ASSUME ethHead \in Nat
    PROVE  /\ FinalBlock \in Nat
           /\ \A b \in Nat \ {0} : b <= FinalBlock => b + EthConfirmations <= ethHead
BY SyncBounds DEF FinalBlock

-----------------------------------------------------------------------------
(***************************************************************************)
(* Types of the nodes' part, which no step of the pallet can disturb.      *)
(***************************************************************************)

(* What holds of where a worker is. *)
RunOK(r) ==
    /\ r.to = None => r.todo = None
    /\ r.todo # None => r.todo \subseteq DOMAIN Partners[r.contract]

NodesTypeOK ==
    /\ ethHead \in Nat
    /\ lastBlock \in [Nodes -> Nat]
    /\ run \in [Workers -> Runs]
    /\ \A w \in Workers : RunOK(run[w])
    /\ pool \in [Nodes -> Seq(Events)]
    /\ sent \in [Nodes -> SUBSET Events]
    /\ lost \in [Nodes -> SUBSET Events]
    /\ crashes \in Nat

(* A step that leaves the nodes alone. *)
LEMMA NodesUntouched ==
    ASSUME NodesTypeOK, UNCHANGED nodeVars, ethHead' \in Nat
    PROVE  NodesTypeOK'
BY DEF NodesTypeOK, nodeVars, RunOK

(* A new place of one worker. *)
LEMMA OneRun ==
    ASSUME NodesTypeOK, NEW w \in Workers, NEW r \in Runs, RunOK(r),
           run' = [run EXCEPT ![w] = r]
    PROVE  run' \in [Workers -> Runs] /\ \A v \in Workers : RunOK(run'[v])
BY DEF NodesTypeOK

LEMMA FreshOK ==
    ASSUME NEW c \in Contracts
    PROVE  Fresh(c) \in Runs /\ RunOK(Fresh(c))
BY DEF RunOK, Runs, Fresh

LEMMA NextContractIsFresh ==
    ASSUME NodesTypeOK, NEW w \in Workers, NextContract(w)
    PROVE  \E c \in Contracts : run' = [run EXCEPT ![w] = Fresh(c)]
<1> DEFINE d == IF run[w].contract = Len(Partners) THEN 1 ELSE run[w].contract + 1
<1>1. run[w].contract \in Contracts
  BY DEF NodesTypeOK, Runs
<1>2. Contracts = 1 .. Len(Partners) /\ Len(Partners) \in Nat
  BY PartnersHaveLogs DEF Contracts
<1>3. d \in Contracts
  BY <1>1, <1>2
<1>4. run' = [run EXCEPT ![w] = Fresh(d)]
  BY DEF NextContract
<1> QED
  BY <1>3, <1>4

LEMMA NextContractType ==
    ASSUME NodesTypeOK, NEW w \in Workers, NextContract(w)
    PROVE  run' \in [Workers -> Runs] /\ \A v \in Workers : RunOK(run'[v])
<1>1. PICK c \in Contracts : run' = [run EXCEPT ![w] = Fresh(c)]
  BY NextContractIsFresh
<1> QED
  BY <1>1, FreshOK, OneRun

(* The place a worker is at after it was asked for the head or the logs,  *)
(* or has voted.                                                          *)
LEMMA RunFields ==
    ASSUME NEW r \in Runs
    PROVE  /\ r.contract \in Contracts
           /\ r.to \in Nat \cup {None}
           /\ \A t \in Nat : /\ [r EXCEPT !.to = t] \in Runs
                             /\ [r EXCEPT !.to = t].to = t
                             /\ [r EXCEPT !.to = t].todo = r.todo
                             /\ [r EXCEPT !.to = t].contract = r.contract
           /\ \A d \in SUBSET DOMAIN Partners[r.contract] :
                /\ [r EXCEPT !.todo = d] \in Runs
                /\ [r EXCEPT !.todo = d].todo = d
                /\ [r EXCEPT !.todo = d].to = r.to
                /\ [r EXCEPT !.todo = d].contract = r.contract
BY DEF Runs

LEMMA AskHeadRun ==
    ASSUME NodesTypeOK, NEW w \in Workers, AskHead(w)
    PROVE  LET r == [run[w] EXCEPT !.to = FinalBlock]
           IN  /\ r \in Runs /\ RunOK(r)
               /\ run' = [run EXCEPT ![w] = r]
<1>1. run[w] \in Runs /\ RunOK(run[w]) /\ FinalBlock \in Nat
  BY FinalBlockType DEF NodesTypeOK
<1>2. run' = [run EXCEPT ![w] = [run[w] EXCEPT !.to = FinalBlock]]
  BY DEF AskHead, NodesTypeOK
<1> HIDE DEF FinalBlock
<1>3. run[w].to = None
  BY DEF AskHead
<1>4. RunOK([run[w] EXCEPT !.to = FinalBlock])
  BY <1>1, <1>3, RunFields, NoneIsNothing DEF RunOK
<1> QED
  BY <1>1, <1>2, <1>4, RunFields

LEMMA AskLogsRun ==
    ASSUME NodesTypeOK, NEW w \in Workers, AskLogs(w)
    PROVE  LET d == LogsBetween(run[w].contract, lastBlock[NodeOf[w]], run[w].to)
               r == [run[w] EXCEPT !.todo = d]
           IN  /\ d \subseteq DOMAIN Partners[run[w].contract]
               /\ r \in Runs /\ RunOK(r)
               /\ run' = [run EXCEPT ![w] = r]
<1> DEFINE d == LogsBetween(run[w].contract, lastBlock[NodeOf[w]], run[w].to)
<1>1. run[w] \in Runs /\ RunOK(run[w]) /\ run[w].to # None
  BY DEF NodesTypeOK, AskLogs
<1>2. run' = [run EXCEPT ![w] = [run[w] EXCEPT !.todo = d]]
  BY DEF AskLogs, NodesTypeOK
<1>3. d \subseteq DOMAIN Partners[run[w].contract]
  BY DEF LogsBetween
<1> HIDE DEF d
<1>4. RunOK([run[w] EXCEPT !.todo = d])
  BY <1>1, <1>3, RunFields DEF RunOK
<1> QED
  BY <1>1, <1>2, <1>3, <1>4, RunFields DEF d

LEMMA VotedRun ==
    ASSUME NodesTypeOK, NEW w \in Workers, run[w].todo # None,
           NEW i \in run[w].todo,
           run' = [run EXCEPT ![w].todo = @ \ {i}]
    PROVE  LET r == [run[w] EXCEPT !.todo = run[w].todo \ {i}]
           IN  /\ i \in DOMAIN Partners[run[w].contract]
               /\ r \in Runs /\ RunOK(r)
               /\ run' = [run EXCEPT ![w] = r]
<1>1. run[w] \in Runs /\ RunOK(run[w])
  BY DEF NodesTypeOK
<1>2. run[w].todo \subseteq DOMAIN Partners[run[w].contract] /\ run[w].to # None
  BY <1>1 DEF RunOK
<1>3. run' = [run EXCEPT ![w] = [run[w] EXCEPT !.todo = run[w].todo \ {i}]]
  BY DEF NodesTypeOK
<1>4. RunOK([run[w] EXCEPT !.todo = run[w].todo \ {i}])
  BY <1>1, <1>2, RunFields DEF RunOK
<1> QED
  BY <1>1, <1>2, <1>3, <1>4, RunFields

(* The steps of the pallet that nodes take no part in. *)
PalletOnly == OtherCall \/ EndBlock

(* One name for the steps of each kind, to split a proof into cases. *)
LEMMA StepCases ==
    ASSUME EthSyncNext, NEW P,
           MineBlock => P,
           PalletOnly => P,
           \A w \in Workers : AskHead(w) => P,
           \A w \in Workers : AskLogs(w) => P,
           \A w \in Workers : GethFails(w) => P,
           \A w \in Workers : SendVote(w) => P,
           \A w \in Workers : StoreLastBlock(w) => P,
           \A n \in Nodes : IncludeVote(n) => P,
           \A n \in Nodes : Crash(n) => P
    PROVE  P
BY DEF EthSyncNext, PalletOnly

LEMMA NodesTypeStep ==
    NodesTypeOK /\ [EthSyncNext]_syncVars => NodesTypeOK'
<1> SUFFICES ASSUME NodesTypeOK, [EthSyncNext]_syncVars
             PROVE  NodesTypeOK'
  OBVIOUS
<1> USE WorkersRunOnNodes
<1>1. CASE MineBlock
  <2>1. ethHead' \in Nat /\ UNCHANGED nodeVars
    BY <1>1 DEF MineBlock, NodesTypeOK
  <2> QED
    BY <2>1, NodesUntouched
<1>2. CASE PalletOnly
  <2>1. ethHead' \in Nat /\ UNCHANGED nodeVars
    BY <1>2 DEF PalletOnly, OtherCall, EndBlock, NodesTypeOK
  <2> QED
    BY <2>1, NodesUntouched
<1>3. ASSUME NEW w \in Workers, AskHead(w)
      PROVE  NodesTypeOK'
  <2>1. run' \in [Workers -> Runs] /\ \A v \in Workers : RunOK(run'[v])
    BY <1>3, AskHeadRun, OneRun
  <2> QED
    BY <1>3, <2>1 DEF AskHead, NodesTypeOK
<1>4. ASSUME NEW w \in Workers, AskLogs(w)
      PROVE  NodesTypeOK'
  <2>1. run' \in [Workers -> Runs] /\ \A v \in Workers : RunOK(run'[v])
    BY <1>4, AskLogsRun, OneRun
  <2> QED
    BY <1>4, <2>1 DEF AskLogs, NodesTypeOK
<1>5. ASSUME NEW w \in Workers, GethFails(w)
      PROVE  NodesTypeOK'
  BY <1>5, NextContractType DEF GethFails, NodesTypeOK
<1>6. ASSUME NEW w \in Workers, SendVote(w)
      PROVE  NodesTypeOK'
  <2> DEFINE n == NodeOf[w]
             e(i) == Partners[run[w].contract][i]
  <2>1. PICK i \in run[w].todo :
          \/ /\ run' = [run EXCEPT ![w].todo = @ \ {i}]
             /\ pool' = [pool EXCEPT ![n] = Append(@, e(i))]
             /\ sent' = [sent EXCEPT ![n] = @ \cup {e(i)}]
          \/ NextContract(w) /\ UNCHANGED <<pool, sent>>
    BY <1>6 DEF SendVote, Refused
  <2>2. run[w].todo # None /\ run[w] \in Runs /\ RunOK(run[w])
    BY <1>6 DEF SendVote, NodesTypeOK
  <2>3. UNCHANGED <<ethHead, lastBlock, lost, crashes>>
    BY <1>6 DEF SendVote
  <2>4. e(i) \in Events /\ n \in Nodes
    BY <2>2, PartnerFacts, RunFields DEF RunOK
  <2>5. CASE NextContract(w) /\ UNCHANGED <<pool, sent>>
    BY <2>3, <2>5, NextContractType DEF NodesTypeOK
  <2>6. CASE /\ run' = [run EXCEPT ![w].todo = @ \ {i}]
             /\ pool' = [pool EXCEPT ![n] = Append(@, e(i))]
             /\ sent' = [sent EXCEPT ![n] = @ \cup {e(i)}]
    <3>1. run' \in [Workers -> Runs] /\ \A v \in Workers : RunOK(run'[v])
      BY <2>2, <2>6, VotedRun, OneRun
    <3>2. pool' \in [Nodes -> Seq(Events)]
      <4> HIDE DEF e
      <4>1. Append(pool[n], e(i)) \in Seq(Events)
        BY <2>4 DEF NodesTypeOK
      <4> QED
        BY <2>4, <2>6, <4>1 DEF NodesTypeOK
    <3>3. sent' \in [Nodes -> SUBSET Events]
      <4> HIDE DEF e
      <4> QED
        BY <2>4, <2>6 DEF NodesTypeOK
    <3> QED
      BY <2>3, <3>1, <3>2, <3>3 DEF NodesTypeOK
  <2> QED
    BY <2>1, <2>5, <2>6
<1>7. ASSUME NEW w \in Workers, StoreLastBlock(w)
      PROVE  NodesTypeOK'
  <2>1. run[w].todo # None /\ run[w] \in Runs /\ RunOK(run[w])
    BY <1>7, NoneIsNotEmpty DEF StoreLastBlock, NodesTypeOK
  <2>2. run[w].to \in Nat
    BY <2>1, RunFields DEF RunOK
  <2> QED
    BY <1>7, <2>2, NextContractType DEF StoreLastBlock, NodesTypeOK
<1>8. ASSUME NEW n \in Nodes, IncludeVote(n)
      PROVE  NodesTypeOK'
  <2>1. Head(pool[n]) \in Events /\ Tail(pool[n]) \in Seq(Events)
    BY <1>8 DEF IncludeVote, NodesTypeOK
  <2>2. pool' \in [Nodes -> Seq(Events)] /\ lost' \in [Nodes -> SUBSET Events]
    BY <1>8, <2>1 DEF IncludeVote, NodesTypeOK
  <2> QED
    BY <1>8, <2>2 DEF IncludeVote, NodesTypeOK, RunOK
<1>9. ASSUME NEW n \in Nodes, Crash(n)
      PROVE  NodesTypeOK'
  <2>1. 1 \in Contracts
    BY PartnersHaveLogs DEF Contracts
  <2>2. run' \in [Workers -> Runs] /\ \A v \in Workers : RunOK(run'[v])
    BY <1>9, <2>1, FreshOK DEF Crash, NodesTypeOK
  <2> DEFINE gone == {pool[n][i] : i \in DOMAIN pool[n]}
  <2>3. gone \subseteq Events
    BY DEF NodesTypeOK
  <2>4. lost' = [lost EXCEPT ![n] = @ \cup gone] /\ pool' = [pool EXCEPT ![n] = <<>>]
    BY <1>9 DEF Crash
  <2>5. lost' \in [Nodes -> SUBSET Events]
    <3> HIDE DEF gone
    <3> QED
      BY <2>3, <2>4 DEF NodesTypeOK
  <2>6. pool' \in [Nodes -> Seq(Events)]
    BY <2>4 DEF NodesTypeOK
  <2>7. UNCHANGED <<ethHead, lastBlock, sent>> /\ crashes' \in Nat
    BY <1>9 DEF Crash, NodesTypeOK
  <2> QED
    BY <2>2, <2>5, <2>6, <2>7 DEF NodesTypeOK
<1>10. CASE UNCHANGED syncVars
  BY <1>10, NodesUntouched DEF syncVars, NodesTypeOK
<1> QED
  BY <1>1, <1>2, <1>3, <1>4, <1>5, <1>6, <1>7, <1>8, <1>9, <1>10, StepCases

LEMMA NodesTypeCorrect == EthSyncSafeSpec => []NodesTypeOK
<1>1. EthSyncInit => NodesTypeOK
  <2>1. 1 \in Contracts
    BY PartnersHaveLogs DEF Contracts
  <2> QED
    BY <2>1, FreshOK DEF EthSyncInit, NodesTypeOK
<1> QED
  BY <1>1, NodesTypeStep, PTL DEF EthSyncSafeSpec

-----------------------------------------------------------------------------
(***************************************************************************)
(* Whatever the workers do, the pallet behaves as its own specification    *)
(* says, in which any validator may vote for any log: what is proved of    *)
(* the accounts pallet holds of the two together.                          *)
(***************************************************************************)
THEOREM PalletKeepsItsSpec == EthSyncSafeSpec => AccountsSpec
<1>1. EthSyncInit => AccountsInit
  BY DEF EthSyncInit
<1>2. NodesTypeOK /\ [EthSyncNext]_syncVars => [AccountsNext]_accountsVars
  <2> SUFFICES ASSUME NodesTypeOK, [EthSyncNext]_syncVars
               PROVE  [AccountsNext]_accountsVars
    OBVIOUS
  <2>1. CASE PalletOnly
    BY <2>1 DEF PalletOnly, OtherCall, EndBlock, AccountsNext, AccountsCall
  <2>2. ASSUME NEW n \in Nodes, IncludeVote(n)
        PROVE  [AccountsNext]_accountsVars
    <3>1. pool[n] \in Seq(Events) /\ pool[n] # <<>>
      BY <2>2 DEF IncludeVote, NodesTypeOK
    <3>2. Head(pool[n]) \in Events /\ KeyOf[n] \in Validators
      BY <3>1, NodesHaveKeys
    <3> QED
      BY <2>2, <3>2 DEF IncludeVote, AccountsNext, AccountsCall
  <2>3. MineBlock => UNCHANGED accountsVars
    BY DEF MineBlock
  <2>4. \A w \in Workers :
          AskHead(w) \/ AskLogs(w) \/ GethFails(w) \/ SendVote(w) \/ StoreLastBlock(w)
            => UNCHANGED accountsVars
    BY DEF AskHead, AskLogs, GethFails, SendVote, StoreLastBlock
  <2>5. \A n \in Nodes : Crash(n) => UNCHANGED accountsVars
    BY DEF Crash
  <2>6. UNCHANGED syncVars => UNCHANGED accountsVars
    BY DEF syncVars
  <2> QED
    BY <2>1, <2>2, <2>3, <2>4, <2>5, <2>6 DEF EthSyncNext, PalletOnly
<1> QED
  BY <1>1, <1>2, NodesTypeCorrect, PTL DEF EthSyncSafeSpec, AccountsSpec

(* Pallet, workers and pools hold values of their types. *)
THEOREM EthSyncTypeCorrect == EthSyncSafeSpec => []EthSyncTypeOK
<1>1. AccountsTypeOK /\ NodesTypeOK => EthSyncTypeOK
  BY DEF NodesTypeOK, RunOK, EthSyncTypeOK
<1> QED
  BY <1>1, NodesTypeCorrect, PalletKeepsItsSpec, AccountsTypeCorrect, PTL

-----------------------------------------------------------------------------
(***************************************************************************)
(* No vote is sent for a log that is not final yet: the range of a run     *)
(* ends at a final block, its logs lie in its range, and a pool holds      *)
(* final logs only.                                                        *)
(***************************************************************************)
RunFinal(r) ==
    /\ r.to # None => r.to <= FinalBlock
    /\ r.todo # None => \A i \in r.todo : Number(r.contract, i) <= r.to

Final(e) == e.block_number + EthConfirmations <= ethHead

FinalOK ==
    /\ \A w \in Workers : RunFinal(run[w])
    /\ \A n \in Nodes : \A i \in DOMAIN pool[n] : Final(pool[n][i])

(* An element that is appended, and what is left without the first. *)
LEMMA AppendFacts ==
    ASSUME NEW S, NEW s \in Seq(S), NEW e \in S
    PROVE  /\ DOMAIN s = 1 .. Len(s) /\ Len(s) \in Nat
           /\ DOMAIN Append(s, e) = 1 .. Len(s) + 1
           /\ Append(s, e)[Len(s) + 1] = e
           /\ \A i \in DOMAIN s : Append(s, e)[i] = s[i]
OBVIOUS

LEMMA TailFacts ==
    ASSUME NEW S, NEW s \in Seq(S), s # <<>>
    PROVE  /\ 1 \in DOMAIN s /\ Head(s) = s[1] /\ s[1] \in S
           /\ DOMAIN s = 1 .. Len(s) /\ Len(s) \in Nat
           /\ DOMAIN Tail(s) = 1 .. Len(s) - 1
           /\ \A i \in DOMAIN Tail(s) : i + 1 \in DOMAIN s /\ Tail(s)[i] = s[i + 1]
OBVIOUS

LEMMA FreshFinal ==
    ASSUME NEW c \in Contracts
    PROVE  RunFinal(Fresh(c))
BY DEF RunFinal, Fresh

(* The other workers stay where they are. *)
LEMMA OthersStay ==
    ASSUME NodesTypeOK, NEW w \in Workers, NEW r, run' = [run EXCEPT ![w] = r]
    PROVE  run'[w] = r /\ \A v \in Workers \ {w} : run'[v] = run[v]
BY DEF NodesTypeOK

LEMMA RunsFinalStep ==
    ASSUME NodesTypeOK, FinalOK, UNCHANGED ethHead,
           NEW w \in Workers, NEW r, RunFinal(r), run' = [run EXCEPT ![w] = r]
    PROVE  (\A v \in Workers : RunFinal(run[v]))'
<1>1. \A v \in Workers : RunFinal(run'[v])
  BY OthersStay DEF FinalOK
<1>2. FinalBlock' = FinalBlock
  BY DEF FinalBlock
<1> QED
  BY <1>1, <1>2 DEF RunFinal

LEMMA FinalStep ==
    NodesTypeOK /\ NodesTypeOK' /\ FinalOK /\ [EthSyncNext]_syncVars => FinalOK'
<1> SUFFICES ASSUME NodesTypeOK, NodesTypeOK', FinalOK, [EthSyncNext]_syncVars
             PROVE  FinalOK'
  OBVIOUS
<1> USE WorkersRunOnNodes
<1>0. ASSUME UNCHANGED <<ethHead, pool>>
      PROVE  (\A n \in Nodes : \A i \in DOMAIN pool[n] : Final(pool[n][i]))'
  BY <1>0 DEF FinalOK, Final
<1>1. CASE MineBlock
  <2>1. /\ ethHead \in Nat
        /\ ethHead' = ethHead + 1
        /\ UNCHANGED <<run, pool>>
    BY <1>1 DEF MineBlock, nodeVars, NodesTypeOK
  <2>2. FinalBlock \in Nat /\ FinalBlock' \in Nat /\ FinalBlock <= FinalBlock'
    BY <2>1, SyncBounds DEF FinalBlock
  <2>3. \A w \in Workers : RunFinal(run[w])'
    <3> SUFFICES ASSUME NEW w \in Workers PROVE RunFinal(run[w])'
      OBVIOUS
    <3>1. run[w] \in Runs /\ RunFinal(run[w]) /\ run'[w] = run[w]
      BY <2>1 DEF NodesTypeOK, FinalOK
    <3>2. run[w].to # None => run[w].to \in Nat
      BY <3>1, RunFields
    <3> HIDE DEF FinalBlock
    <3>3. run[w].to # None => run[w].to <= FinalBlock'
      BY <2>2, <3>1, <3>2 DEF RunFinal
    <3> QED
      BY <2>1, <3>1, <3>3 DEF RunFinal, Number
  <2>4. \A n \in Nodes : \A i \in DOMAIN pool[n] : Final(pool[n][i])'
    <3> SUFFICES ASSUME NEW n \in Nodes, NEW i \in DOMAIN pool[n]
                 PROVE  pool[n][i].block_number + EthConfirmations <= ethHead'
      BY <2>1 DEF Final
    <3>1. pool[n][i] \in Events
      BY DEF NodesTypeOK
    <3>2. pool[n][i].block_number \in Nat
      BY <3>1, EventsAreLogs DEF EthLockUpdate
    <3> QED
      BY <2>1, <3>2, SyncBounds DEF FinalOK, Final
  <2> QED
    BY <2>1, <2>3, <2>4 DEF FinalOK
<1>2. CASE PalletOnly
  BY <1>2 DEF PalletOnly, OtherCall, EndBlock, nodeVars, FinalOK, Final,
              RunFinal, FinalBlock
<1>3. ASSUME NEW w \in Workers, AskHead(w)
      PROVE  FinalOK'
  <2> DEFINE r == [run[w] EXCEPT !.to = FinalBlock]
  <2>1. run' = [run EXCEPT ![w] = r] /\ run[w] \in Runs
    BY <1>3, AskHeadRun DEF NodesTypeOK
  <2>2. run[w].todo = None
    BY <1>3 DEF AskHead, NodesTypeOK, RunOK
  <2>3. FinalBlock \in Nat
    BY FinalBlockType DEF NodesTypeOK
  <2>4. r.to = FinalBlock /\ r.todo = None
    BY <2>1, <2>2, <2>3, RunFields
  <2>5. RunFinal(r)
    <3> HIDE DEF r
    <3> QED
      BY <2>3, <2>4 DEF RunFinal
  <2> HIDE DEF r
  <2>6. UNCHANGED <<ethHead, pool>>
    BY <1>3 DEF AskHead
  <2> QED
    BY <1>0, <2>1, <2>5, <2>6, RunsFinalStep DEF FinalOK
<1>4. ASSUME NEW w \in Workers, AskLogs(w)
      PROVE  FinalOK'
  <2> DEFINE d == LogsBetween(run[w].contract, lastBlock[NodeOf[w]], run[w].to)
             r == [run[w] EXCEPT !.todo = d]
  <2>1. /\ run' = [run EXCEPT ![w] = r] /\ run[w] \in Runs
        /\ d \subseteq DOMAIN Partners[run[w].contract]
    BY <1>4, AskLogsRun DEF NodesTypeOK
  <2>2. \A i \in d : Number(run[w].contract, i) <= run[w].to
    BY DEF LogsBetween
  <2>3. RunFinal(r)
    <3> HIDE DEF d
    <3>1. r.todo = d /\ r.to = run[w].to /\ r.contract = run[w].contract
      BY <2>1, RunFields
    <3> HIDE DEF r
    <3>2. RunFinal(run[w])
      BY DEF FinalOK
    <3> QED
      BY <2>2, <3>1, <3>2 DEF RunFinal
  <2> HIDE DEF r
  <2>4. UNCHANGED <<ethHead, pool>>
    BY <1>4 DEF AskLogs
  <2> QED
    BY <1>0, <2>1, <2>3, <2>4, RunsFinalStep DEF FinalOK
<1>5. ASSUME NEW w \in Workers, GethFails(w) \/ StoreLastBlock(w)
      PROVE  FinalOK'
  <2>1. NextContract(w) /\ UNCHANGED <<ethHead, pool>>
    BY <1>5 DEF GethFails, StoreLastBlock
  <2>2. PICK c \in Contracts : run' = [run EXCEPT ![w] = Fresh(c)]
    BY <2>1, NextContractIsFresh
  <2> QED
    BY <1>0, <2>1, <2>2, FreshFinal, RunsFinalStep DEF FinalOK
<1>6. ASSUME NEW w \in Workers, SendVote(w)
      PROVE  FinalOK'
  <2> DEFINE n == NodeOf[w]
             e(i) == Partners[run[w].contract][i]
  <2>1. PICK i \in run[w].todo :
          \/ /\ run' = [run EXCEPT ![w].todo = @ \ {i}]
             /\ pool' = [pool EXCEPT ![n] = Append(@, e(i))]
          \/ NextContract(w) /\ UNCHANGED pool
    BY <1>6 DEF SendVote, Refused
  <2>2. /\ run[w].todo # None /\ run[w] \in Runs /\ RunOK(run[w])
        /\ RunFinal(run[w]) /\ UNCHANGED ethHead
    BY <1>6 DEF SendVote, NodesTypeOK, FinalOK
  <2>3. CASE NextContract(w) /\ UNCHANGED pool
    <3>1. PICK c \in Contracts : run' = [run EXCEPT ![w] = Fresh(c)]
      BY <2>3, NextContractIsFresh
    <3> QED
      BY <1>0, <2>2, <2>3, <3>1, FreshFinal, RunsFinalStep DEF FinalOK
  <2>4. CASE /\ run' = [run EXCEPT ![w].todo = @ \ {i}]
             /\ pool' = [pool EXCEPT ![n] = Append(@, e(i))]
    <3> DEFINE r == [run[w] EXCEPT !.todo = run[w].todo \ {i}]
    <3>1. /\ i \in DOMAIN Partners[run[w].contract]
          /\ run' = [run EXCEPT ![w] = r]
      BY <2>2, <2>4, VotedRun
    <3>2. /\ run[w].contract \in Contracts /\ run[w].to \in Nat
          /\ run[w].todo \ {i} \subseteq DOMAIN Partners[run[w].contract]
      BY <2>2, RunFields DEF RunOK
    <3>3. RunFinal(r)
      <4>1. /\ r.todo = run[w].todo \ {i} /\ r.to = run[w].to
            /\ r.contract = run[w].contract
        BY <2>2, <3>2, RunFields
      <4> HIDE DEF r
      <4> QED
        BY <2>2, <4>1 DEF RunFinal
    <3>4. (\A v \in Workers : RunFinal(run[v]))'
      <4> HIDE DEF r
      <4> QED
        BY <2>2, <3>1, <3>3, RunsFinalStep
    <3>5. Final(e(i))
      <4>1. /\ Number(run[w].contract, i) \in Nat \ {0}
            /\ e(i).block_number = Number(run[w].contract, i)
        BY <3>1, <3>2, PartnerFacts DEF Number
      <4>2. Number(run[w].contract, i) <= run[w].to /\ run[w].to <= FinalBlock
        BY <2>2, <3>2, NoneIsNothing DEF RunFinal
      <4>3. /\ FinalBlock \in Nat
            /\ \A b \in Nat \ {0} : b <= FinalBlock => b + EthConfirmations <= ethHead
        BY FinalBlockType DEF NodesTypeOK
      <4> HIDE DEF FinalBlock, Number, e
      <4>4. Number(run[w].contract, i) <= FinalBlock
        BY <3>2, <4>1, <4>2, <4>3
      <4> QED
        BY <4>1, <4>3, <4>4 DEF Final
    <3>6. e(i) \in Events /\ n \in Nodes
      BY <3>1, <3>2, PartnerFacts
    <3>7. (\A m \in Nodes : \A p \in DOMAIN pool[m] : Final(pool[m][p]))'
      <4> HIDE DEF e
      <4> SUFFICES ASSUME NEW m \in Nodes, NEW p \in DOMAIN pool'[m]
                   PROVE  Final(pool'[m][p])
        BY <2>2 DEF Final
      <4>1. CASE m = n
        <5>1. pool'[m] = Append(pool[n], e(i)) /\ pool[n] \in Seq(Events)
          BY <2>4, <4>1 DEF NodesTypeOK
        <5>2. /\ p = Len(pool[n]) + 1 => pool'[m][p] = e(i)
              /\ p # Len(pool[n]) + 1 => /\ p \in DOMAIN pool[n]
                                         /\ pool'[m][p] = pool[n][p]
          BY <5>1, <3>6, AppendFacts
        <5> QED
          BY <3>5, <3>6, <5>2 DEF FinalOK
      <4>2. CASE m # n
        BY <2>4, <4>2 DEF FinalOK, NodesTypeOK
      <4> QED
        BY <4>1, <4>2
    <3> QED
      BY <3>4, <3>7 DEF FinalOK
  <2> QED
    BY <2>1, <2>3, <2>4
<1>7. ASSUME NEW n \in Nodes, IncludeVote(n)
      PROVE  FinalOK'
  <2>1. /\ pool[n] \in Seq(Events) /\ pool[n] # <<>>
        /\ pool' = [pool EXCEPT ![n] = Tail(pool[n])]
        /\ UNCHANGED <<ethHead, run>>
    BY <1>7 DEF IncludeVote, NodesTypeOK
  <2>2. \A w \in Workers : RunFinal(run[w])'
    BY <2>1 DEF FinalOK, RunFinal, FinalBlock
  <2>3. (\A m \in Nodes : \A p \in DOMAIN pool[m] : Final(pool[m][p]))'
    <3> SUFFICES ASSUME NEW m \in Nodes, NEW p \in DOMAIN pool'[m]
                 PROVE  Final(pool'[m][p])
      BY <2>1 DEF Final
    <3>1. CASE m = n
      <4>1. pool'[m] = Tail(pool[n])
        BY <2>1, <3>1 DEF NodesTypeOK
      <4>2. \A i \in DOMAIN Tail(pool[n]) :
              i + 1 \in DOMAIN pool[n] /\ Tail(pool[n])[i] = pool[n][i + 1]
        BY <2>1, TailFacts
      <4> QED
        BY <4>1, <4>2 DEF FinalOK
    <3>2. CASE m # n
      BY <2>1, <3>2 DEF FinalOK, NodesTypeOK
    <3> QED
      BY <3>1, <3>2
  <2> QED
    BY <2>2, <2>3 DEF FinalOK
<1>8. ASSUME NEW n \in Nodes, Crash(n)
      PROVE  FinalOK'
  <2>1. /\ run' = [w \in Workers |-> IF NodeOf[w] = n THEN Fresh(1) ELSE run[w]]
        /\ pool' = [pool EXCEPT ![n] = <<>>]
        /\ UNCHANGED ethHead
    BY <1>8 DEF Crash
  <2>2. 1 \in Contracts
    BY PartnersHaveLogs DEF Contracts
  <2>3. \A w \in Workers : RunFinal(run'[w])
    BY <2>1, <2>2, FreshFinal DEF FinalOK
  <2>4. \A m \in Nodes : \A p \in DOMAIN pool'[m] : Final(pool'[m][p])
    <3> SUFFICES ASSUME NEW m \in Nodes, NEW p \in DOMAIN pool'[m]
                 PROVE  Final(pool'[m][p])
      OBVIOUS
    <3>1. m # n
      BY <2>1 DEF NodesTypeOK
    <3> QED
      BY <2>1, <3>1 DEF FinalOK, NodesTypeOK
  <2> QED
    BY <2>1, <2>3, <2>4 DEF FinalOK, RunFinal, FinalBlock, Final
<1>9. CASE UNCHANGED syncVars
  BY <1>9 DEF syncVars, nodeVars, FinalOK, Final, RunFinal, FinalBlock
<1> QED
  BY <1>1, <1>2, <1>3, <1>4, <1>5, <1>6, <1>7, <1>8, <1>9, StepCases

LEMMA FinalInvariant == EthSyncSafeSpec => [](NodesTypeOK /\ FinalOK)
<1>1. EthSyncInit => FinalOK
  <2>1. 1 \in Contracts
    BY PartnersHaveLogs DEF Contracts
  <2> QED
    BY <2>1, FreshFinal DEF EthSyncInit, FinalOK
<1> QED
  BY <1>1, NodesTypeCorrect, FinalStep, PTL DEF EthSyncSafeSpec

(***************************************************************************)
(* Pallet and workers together implement the abstract bridge: every step   *)
(* is a step of the Ethereum chain, one log taking effect that is final    *)
(* and did not take effect before, or nothing that the bridge shows.       *)
(***************************************************************************)
THEOREM ImplementsBridge == EthSyncSafeSpec => IsBridge
<1>1. EthSyncInit => Bridge!BridgeInit
  BY DEF EthSyncInit, AccountsInit, Bridge!BridgeInit
<1>2. NodesTypeOK /\ FinalOK /\ [EthSyncNext]_syncVars
        => [Bridge!BridgeNext]_(Bridge!bridgeVars)
  <2> SUFFICES ASSUME NodesTypeOK, FinalOK, [EthSyncNext]_syncVars
               PROVE  [Bridge!BridgeNext]_(Bridge!bridgeVars)
    OBVIOUS
  <2> DEFINE Stutters == UNCHANGED <<ethHead, EVMLinkVotingClosed, EthLockedFrag>>
  <2>1. CASE MineBlock
    BY <2>1 DEF MineBlock, accountsVars, Bridge!BridgeNext, Bridge!Advance
  <2>2. PalletOnly => Stutters
    BY DEF PalletOnly, OtherCall, EndBlock, AddKey, DelKey, Link, Unlink,
           SponsorAccount, TakePendingUnlinks, voteVars
  <2>3. \A w \in Workers :
          AskHead(w) \/ AskLogs(w) \/ GethFails(w) \/ SendVote(w) \/ StoreLastBlock(w)
            => Stutters
    BY DEF AskHead, AskLogs, GethFails, SendVote, StoreLastBlock, accountsVars
  <2>4. \A n \in Nodes : Crash(n) => Stutters
    BY DEF Crash, accountsVars
  <2>5. UNCHANGED syncVars => Stutters
    BY DEF syncVars, accountsVars
  <2>6. ASSUME NEW n \in Nodes, IncludeVote(n)
        PROVE  [Bridge!BridgeNext]_(Bridge!bridgeVars)
    <3> DEFINE e == Head(pool[n])
    <3>1. pool[n] \in Seq(Events) /\ pool[n] # <<>> /\ UNCHANGED ethHead
      BY <2>6 DEF IncludeVote, NodesTypeOK
    <3>2. e \in Events /\ Final(e)
      <4>1. e = pool[n][1] /\ e \in Events /\ 1 \in DOMAIN pool[n]
        BY <3>1, TailFacts
      <4> QED
        BY <4>1 DEF FinalOK
    <3>3. CASE UNCHANGED accountsVars
      BY <3>1, <3>3 DEF accountsVars, Bridge!bridgeVars
    <3>4. CASE Counts(n, e) /\ InternalLockUpdate(KeyOf[n], e)
      <4>1. CASE CountVote(e)
        BY <3>1, <4>1 DEF CountVote, Bridge!bridgeVars
      <4>2. CASE Carry(e)
        <5>1. Bridge!TakeEffect(e)
          BY <3>1, <3>2, <3>4, <4>2
          DEF Carry, Counts, Open, Verified, Final, Bridge!TakeEffect
        <5> QED
          BY <3>2, <5>1 DEF Bridge!BridgeNext
      <4> QED
        BY <3>4, <4>1, <4>2 DEF InternalLockUpdate
    <3> QED
      BY <2>6, <3>3, <3>4 DEF IncludeVote
  <2>7. Stutters => UNCHANGED Bridge!bridgeVars
    BY DEF Bridge!bridgeVars
  <2> QED
    BY <2>1, <2>2, <2>3, <2>4, <2>5, <2>6, <2>7 DEF EthSyncNext, PalletOnly
<1> QED
  BY <1>1, <1>2, FinalInvariant, PTL
  DEF EthSyncSafeSpec, IsBridge, Bridge!BridgeSpec

-----------------------------------------------------------------------------
(***************************************************************************)
(* No log is passed over, with one contract: besides LogsSent, a log in    *)
(* the range of a run that asked for the logs is yet to be voted for or    *)
(* was voted for already.                                                  *)
(***************************************************************************)
Covered(r, votes) ==
    r.todo # None =>
        \A i \in DOMAIN Partners[1] :
            Number(1, i) <= r.to => i \in r.todo \/ Partners[1][i] \in votes

SentOK ==
    /\ \A n \in Nodes, i \in DOMAIN Partners[1] :
         Number(1, i) <= lastBlock[n] => Partners[1][i] \in sent[n]
    /\ \A w \in Workers : Covered(run[w], sent[NodeOf[w]])

LEMMA FreshCovered ==
    ASSUME NEW c \in Contracts, NEW votes
    PROVE  Covered(Fresh(c), votes)
BY DEF Covered, Fresh

LEMMA CoveredStep ==
    ASSUME NodesTypeOK, SentOK, NEW w \in Workers, NEW r,
           run' = [run EXCEPT ![w] = r],
           \A n \in Nodes : sent[n] \subseteq sent'[n],
           Covered(r, sent'[NodeOf[w]])
    PROVE  \A v \in Workers : Covered(run'[v], sent'[NodeOf[v]])
<1>1. ASSUME NEW v \in Workers \ {w}
      PROVE  Covered(run'[v], sent'[NodeOf[v]])
  <2>1. Covered(run[v], sent[NodeOf[v]]) /\ run'[v] = run[v]
    BY OthersStay DEF SentOK
  <2>2. sent[NodeOf[v]] \subseteq sent'[NodeOf[v]]
    BY WorkersRunOnNodes
  <2> QED
    BY <2>1, <2>2 DEF Covered
<1>2. Covered(run'[w], sent'[NodeOf[w]])
  BY OthersStay
<1> QED
  BY <1>1, <1>2

LEMMA SentStep ==
    ASSUME NodesTypeOK, SentOK, Len(Partners) = 1, [EthSyncNext]_syncVars
    PROVE  SentOK'
<1> USE WorkersRunOnNodes
<1>a. Contracts = {1}
  BY PartnersHaveLogs DEF Contracts
<1>b. \A i \in DOMAIN Partners[1] : Number(1, i) \in Nat /\ Number(1, i) > 0
  BY <1>a, PartnerFacts
<1>c. \A w \in Workers : run[w] \in Runs /\ run[w].contract = 1
  BY <1>a DEF NodesTypeOK, Runs
<1>1. CASE UNCHANGED nodeVars
  BY <1>1 DEF nodeVars, SentOK
<1>2. ASSUME NEW w \in Workers, AskHead(w)
      PROVE  SentOK'
  <2> DEFINE r == [run[w] EXCEPT !.to = FinalBlock]
  <2>1. run' = [run EXCEPT ![w] = r] /\ UNCHANGED <<lastBlock, sent>>
    BY <1>2, AskHeadRun DEF AskHead
  <2>2. r.todo = None
    BY <1>2, <1>c, RunFields, FinalBlockType DEF AskHead, NodesTypeOK, RunOK
  <2> HIDE DEF r
  <2>3. Covered(r, sent'[NodeOf[w]])
    BY <2>2 DEF Covered
  <2> QED
    BY <2>1, <2>3, CoveredStep DEF SentOK
<1>3. ASSUME NEW w \in Workers, AskLogs(w)
      PROVE  SentOK'
  <2> DEFINE n == NodeOf[w]
             d == LogsBetween(run[w].contract, lastBlock[n], run[w].to)
             r == [run[w] EXCEPT !.todo = d]
  <2>1. /\ run' = [run EXCEPT ![w] = r] /\ UNCHANGED <<lastBlock, sent>>
        /\ d \subseteq DOMAIN Partners[run[w].contract]
    BY <1>3, AskLogsRun DEF AskLogs
  <2>2. lastBlock[n] \in Nat
    BY DEF NodesTypeOK
  <2>3. \A i \in DOMAIN Partners[1] :
          Number(1, i) <= run[w].to => i \in d \/ Number(1, i) <= lastBlock[n]
    BY <1>b, <1>c, <2>2 DEF LogsBetween
  <2>4. Covered(r, sent[n])
    <3> HIDE DEF d
    <3>1. r.todo = d /\ r.to = run[w].to
      BY <1>c, <2>1, RunFields
    <3> HIDE DEF r
    <3> QED
      BY <2>3, <3>1 DEF Covered, SentOK
  <2> HIDE DEF r
  <2> QED
    BY <2>1, <2>4, CoveredStep DEF SentOK
<1>4. ASSUME NEW w \in Workers, NextContract(w), UNCHANGED <<lastBlock, sent>>
      PROVE  SentOK'
  <2>1. PICK c \in Contracts : run' = [run EXCEPT ![w] = Fresh(c)]
    BY <1>4, NextContractIsFresh
  <2> QED
    BY <1>4, <2>1, FreshCovered, CoveredStep DEF SentOK
<1>5. ASSUME NEW w \in Workers, SendVote(w)
      PROVE  SentOK'
  <2> DEFINE n == NodeOf[w]
             e(i) == Partners[run[w].contract][i]
  <2>1. PICK i \in run[w].todo :
          \/ /\ run' = [run EXCEPT ![w].todo = @ \ {i}]
             /\ sent' = [sent EXCEPT ![n] = @ \cup {e(i)}]
          \/ NextContract(w) /\ UNCHANGED sent
    BY <1>5 DEF SendVote, Refused
  <2>2. run[w].todo # None /\ UNCHANGED lastBlock
    BY <1>5 DEF SendVote
  <2>3. CASE NextContract(w) /\ UNCHANGED sent
    BY <1>4, <2>2, <2>3
  <2>4. CASE /\ run' = [run EXCEPT ![w].todo = @ \ {i}]
             /\ sent' = [sent EXCEPT ![n] = @ \cup {e(i)}]
    <3> DEFINE r == [run[w] EXCEPT !.todo = run[w].todo \ {i}]
    <3>1. run' = [run EXCEPT ![w] = r]
      BY <2>2, <2>4, VotedRun
    <3>2. r.todo = run[w].todo \ {i} /\ r.to = run[w].to
      BY <1>c, <2>2, RunFields DEF NodesTypeOK, RunOK
    <3>3. e(i) = Partners[1][i]
      BY <1>c
    <3>4. sent'[n] = sent[n] \cup {Partners[1][i]}
      BY <2>4, <3>3 DEF NodesTypeOK
    <3> HIDE DEF e, r
    <3>5. \A m \in Nodes : sent[m] \subseteq sent'[m]
      BY <2>4 DEF NodesTypeOK
    <3>6. Covered(r, sent'[n])
      BY <2>2, <3>2, <3>4 DEF Covered, SentOK
    <3>7. \A v \in Workers : Covered(run'[v], sent'[NodeOf[v]])
      BY <3>1, <3>5, <3>6, CoveredStep
    <3> QED
      BY <2>2, <3>5, <3>7 DEF SentOK
  <2> QED
    BY <2>1, <2>3, <2>4
<1>6. ASSUME NEW w \in Workers, StoreLastBlock(w)
      PROVE  SentOK'
  <2>1. /\ run[w].todo = {} /\ NextContract(w) /\ UNCHANGED sent
        /\ lastBlock' = [lastBlock EXCEPT ![NodeOf[w]] = run[w].to]
    BY <1>6 DEF StoreLastBlock
  <2>2. PICK c \in Contracts : run' = [run EXCEPT ![w] = Fresh(c)]
    BY <2>1, NextContractIsFresh
  <2>3. \A v \in Workers : Covered(run'[v], sent'[NodeOf[v]])
    BY <2>1, <2>2, FreshCovered, CoveredStep
  <2>4. \A i \in DOMAIN Partners[1] :
          Number(1, i) <= run[w].to => Partners[1][i] \in sent[NodeOf[w]]
    BY <2>1, NoneIsNotEmpty DEF SentOK, Covered
  <2>5. ASSUME NEW n \in Nodes, NEW i \in DOMAIN Partners[1],
               Number(1, i) <= lastBlock'[n]
        PROVE  Partners[1][i] \in sent'[n]
    <3>1. CASE n = NodeOf[w]
      BY <2>1, <2>4, <2>5, <3>1 DEF NodesTypeOK
    <3>2. CASE n # NodeOf[w]
      BY <2>1, <2>5, <3>2 DEF SentOK, NodesTypeOK
    <3> QED
      BY <3>1, <3>2
  <2> QED
    BY <2>3, <2>5 DEF SentOK
<1>7. ASSUME NEW n \in Nodes, IncludeVote(n)
      PROVE  SentOK'
  BY <1>7 DEF IncludeVote, SentOK
<1>8. ASSUME NEW n \in Nodes, Crash(n)
      PROVE  SentOK'
  <2>1. /\ run' = [w \in Workers |-> IF NodeOf[w] = n THEN Fresh(1) ELSE run[w]]
        /\ UNCHANGED <<lastBlock, sent>>
    BY <1>8 DEF Crash
  <2>2. \A w \in Workers : Covered(run'[w], sent'[NodeOf[w]])
    BY <1>a, <2>1, FreshCovered DEF SentOK
  <2> QED
    BY <2>1, <2>2 DEF SentOK
<1>9. /\ MineBlock \/ PalletOnly \/ UNCHANGED syncVars => UNCHANGED nodeVars
      /\ \A w \in Workers : GethFails(w) => /\ NextContract(w)
                                            /\ UNCHANGED <<lastBlock, sent>>
  BY DEF MineBlock, PalletOnly, OtherCall, EndBlock, syncVars, GethFails
<1> QED
  BY <1>1, <1>2, <1>3, <1>4, <1>5, <1>6, <1>7, <1>8, <1>9, StepCases

SentInv == Len(Partners) = 1 => SentOK

LEMMA SentInvariant == EthSyncSafeSpec => [](NodesTypeOK /\ SentInv)
<1>1. EthSyncInit => SentInv
  <2> SUFFICES ASSUME Len(Partners) = 1, EthSyncInit
               PROVE  SentOK
    BY DEF SentInv
  <2>1. 1 \in Contracts
    BY PartnersHaveLogs DEF Contracts
  <2>2. \A i \in DOMAIN Partners[1] : ~ (Number(1, i) <= 0)
    BY <2>1, PartnerFacts
  <2>3. \A w \in Workers : Covered(run[w], sent[NodeOf[w]])
    BY <2>1, FreshCovered DEF EthSyncInit
  <2> QED
    BY <2>2, <2>3 DEF EthSyncInit, SentOK
<1>2. NodesTypeOK /\ SentInv /\ [EthSyncNext]_syncVars => SentInv'
  BY SentStep DEF SentInv
<1> QED
  BY <1>1, <1>2, NodesTypeCorrect, PTL DEF EthSyncSafeSpec

(* A node passes over no log up to the block that it stored, whatever     *)
(* failed, stopped or ran at the same time.                               *)
THEOREM NoLogPassedOver == EthSyncSafeSpec => []LogsSent
<1>1. SentInv => LogsSent
  BY DEF SentInv, SentOK, LogsSent
<1> QED
  BY <1>1, SentInvariant, PTL

-----------------------------------------------------------------------------
(***************************************************************************)
(* The order of the logs of one contract, where one vote is enough.  A     *)
(* node's pool takes the votes in order, so that a log that was sent lies  *)
(* in the pool before every later one, took effect or was lost.            *)
(***************************************************************************)
Logs == DOMAIN Partners[1]
L(i) == Partners[1][i]

Done(n, e) == e \in EVMLinkVotingClosed \/ e \in lost[n]

(* Some vote for e stands before place q of the queue. *)
Before(queue, e, q) == \E p \in DOMAIN queue : p < q /\ queue[p] = e

OrderOK ==
    /\ \A n \in Nodes, i, j \in Logs :
         i < j /\ L(j) \in sent[n] => L(i) \in sent[n]
    /\ \A n \in Nodes, i \in Logs :
         Verified(L(i)) /\ L(i) \in sent[n]
           => Done(n, L(i)) \/ Before(pool[n], L(i), Len(pool[n]) + 1)
    /\ \A n \in Nodes, i, j \in Logs : \A q \in DOMAIN pool[n] :
         i < j /\ Verified(L(i)) /\ pool[n][q] = L(j)
           => Done(n, L(i)) \/ Before(pool[n], L(i), q)
    /\ \A i, j \in Logs :
         i < j /\ Verified(L(i)) /\ L(j) \in EVMLinkVotingClosed
           => \E n \in Nodes : Done(n, L(i))

LEMMA LogFacts ==
    ASSUME Len(Partners) = 1
    PROVE  /\ Contracts = {1} /\ Logs \subseteq Nat
           /\ \A i \in Logs : L(i) \in Events /\ Number(1, i) \in Nat
           /\ \A i, j \in Logs :
                i < j => L(i) # L(j) /\ Number(1, i) <= Number(1, j)
<1>1. Contracts = {1}
  BY PartnersHaveLogs DEF Contracts
<1>2. \A i \in Logs : i \in Nat /\ L(i) \in Events /\ Number(1, i) \in Nat
  BY <1>1, PartnerFacts DEF Logs, L
<1>3. \A i, j \in Logs : i < j => L(i) # L(j) /\ Number(1, i) <= Number(1, j)
  BY <1>1, PartnersHaveLogs DEF Logs, L, Number, Contracts
<1> QED
  BY <1>1, <1>2, <1>3

(* What a vote that is included or lost leaves behind. *)
LEMMA Included ==
    ASSUME AccountsTypeOK, NodesTypeOK, Threshold <= 1,
           NEW n \in Nodes, IncludeVote(n), NEW e, e = Head(pool[n])
    PROVE  /\ Verified(e) => Done(n, e)'
           /\ EVMLinkVotingClosed \subseteq EVMLinkVotingClosed'
           /\ EVMLinkVotingClosed' \subseteq EVMLinkVotingClosed \cup {e}
           /\ \A m \in Nodes : lost[m] \subseteq lost'[m]
<1>1. e \in Events
  BY TailFacts DEF IncludeVote, NodesTypeOK
<1>2. \A m \in Nodes : lost[m] \subseteq lost'[m]
  BY DEF IncludeVote, NodesTypeOK
<1>3. CASE KeyOf[n] \notin FragKeys
  <2>1. e \in lost'[n]
    BY <1>3 DEF IncludeVote, NodesTypeOK
  <2>2. UNCHANGED EVMLinkVotingClosed
    BY <1>3 DEF IncludeVote, Counts, accountsVars
  <2> QED
    BY <1>2, <2>1, <2>2 DEF Done
<1>4. CASE KeyOf[n] \in FragKeys /\ ~ (Open(e) /\ Verified(e))
  <2>1. UNCHANGED EVMLinkVotingClosed
    BY <1>4 DEF IncludeVote, Counts, accountsVars
  <2> QED
    BY <1>2, <1>4, <2>1 DEF Done, Open
<1>5. CASE KeyOf[n] \in FragKeys /\ Open(e) /\ Verified(e)
  <2>1. InternalLockUpdate(KeyOf[n], e)
    BY <1>5 DEF IncludeVote, Counts
  <2>2. Quorum(e)
    <3>1. EVMLinkVoting[e] \in Nat
      BY <1>1 DEF AccountsTypeOK
    <3> QED
      BY <3>1, ThresholdIsNat DEF Quorum
  <2>3. EVMLinkVotingClosed' = EVMLinkVotingClosed \cup {e}
    BY <2>1, <2>2 DEF InternalLockUpdate, Carry
  <2> QED
    BY <1>2, <2>3 DEF Done
<1> QED
  BY <1>3, <1>4, <1>5

(* Steps that touch neither pools nor what was sent, lost or effected. *)
LEMMA OrderUntouched ==
    ASSUME OrderOK, UNCHANGED <<pool, sent, lost, EVMLinkVotingClosed>>
    PROVE  OrderOK'
BY DEF OrderOK, Done, Before

LEMMA SendKeepsOrder ==
    ASSUME NodesTypeOK, FinalOK, SentOK, OrderOK, Len(Partners) = 1,
           NEW w \in Workers, SendVote(w)
    PROVE  OrderOK'
<1> DEFINE n == NodeOf[w]
           s == pool[n]
<1>1. n \in Nodes /\ s \in Seq(Events) /\ run[w].contract = 1
  BY WorkersRunOnNodes, LogFacts DEF NodesTypeOK, Runs
<1>2. /\ run[w].todo # None /\ run[w].todo \subseteq Logs
      /\ UNCHANGED <<lost, EVMLinkVotingClosed>>
  BY <1>1 DEF SendVote, NodesTypeOK, RunOK, Logs, accountsVars
<1>3. PICK k \in run[w].todo :
        /\ IsNext(run[w].todo, k)
        /\ \/ /\ pool' = [pool EXCEPT ![n] = Append(@, L(k))]
              /\ sent' = [sent EXCEPT ![n] = @ \cup {L(k)}]
           \/ UNCHANGED <<pool, sent>>
  BY <1>1 DEF SendVote, L
<1>4. CASE UNCHANGED <<pool, sent>>
  BY <1>2, <1>4, OrderUntouched
<1>5. CASE /\ pool' = [pool EXCEPT ![n] = Append(@, L(k))]
           /\ sent' = [sent EXCEPT ![n] = @ \cup {L(k)}]
  <2>1. k \in Logs /\ L(k) \in Events
    BY <1>2, LogFacts
  <2>2. \A i \in Logs : i < k => L(i) \in sent[n]
    <3> SUFFICES ASSUME NEW i \in Logs, i < k
                 PROVE  L(i) \in sent[n]
      OBVIOUS
    <3>1. i \in Nat /\ k \in Nat /\ i \notin run[w].todo
      BY <1>3, <2>1, LogFacts DEF IsNext
    <3>2. Number(1, i) <= Number(1, k) /\ Number(1, k) <= run[w].to
      BY <1>1, <1>2, <2>1, LogFacts DEF FinalOK, RunFinal
    <3>3. run[w].to \in Nat /\ Number(1, i) \in Nat /\ Number(1, k) \in Nat
      BY <1>2, <2>1, LogFacts, RunFields DEF NodesTypeOK, RunOK
    <3>4. Number(1, i) <= run[w].to
      BY <3>2, <3>3
    <3> QED
      BY <1>2, <3>1, <3>4 DEF SentOK, Covered, Logs, L
  <2>3. /\ pool'[n] = Append(s, L(k)) /\ sent'[n] = sent[n] \cup {L(k)}
        /\ \A m \in Nodes \ {n} : pool'[m] = pool[m] /\ sent'[m] = sent[m]
    BY <1>1, <1>5 DEF NodesTypeOK
  <2>4. /\ DOMAIN s = 1 .. Len(s) /\ Len(s) \in Nat
        /\ DOMAIN pool'[n] = 1 .. Len(s) + 1 /\ Len(pool'[n]) = Len(s) + 1
        /\ pool'[n][Len(s) + 1] = L(k)
        /\ \A q \in DOMAIN s : pool'[n][q] = s[q]
    BY <1>1, <2>1, <2>3, AppendFacts
  <2> HIDE DEF s
  <2>5. \A m \in Nodes : \A e : Done(m, e)' <=> Done(m, e)
    BY <1>2 DEF Done
  <2>6. \A e, q : Before(s, e, q) => Before(pool'[n], e, q)
    BY <2>4 DEF Before
  <2>8. \A i, j \in Logs : L(i) = L(j) => i = j
    <3> SUFFICES ASSUME NEW i \in Logs, NEW j \in Logs, L(i) = L(j)
                 PROVE  i = j
      OBVIOUS
    <3>1. ~ (i < j) /\ ~ (j < i) /\ i \in Nat /\ j \in Nat
      BY LogFacts
    <3> QED
      BY <3>1
  <2>9. \A m \in Nodes, i, j \in Logs :
          i < j /\ L(j) \in sent'[m] => L(i) \in sent'[m]
    <3> SUFFICES ASSUME NEW m \in Nodes, NEW i \in Logs, NEW j \in Logs,
                        i < j, L(j) \in sent'[m]
                 PROVE  L(i) \in sent'[m]
      OBVIOUS
    <3>1. CASE L(j) \in sent[m]
      <4>1. L(i) \in sent[m]
        BY <3>1 DEF OrderOK
      <4> QED
        BY <2>3, <4>1
    <3>2. CASE L(j) \notin sent[m]
      <4>1. m = n /\ j = k
        BY <2>1, <2>3, <2>8, <3>2
      <4> QED
        BY <2>2, <2>3, <4>1
    <3> QED
      BY <3>1, <3>2
  <2>10. ASSUME NEW m \in Nodes, NEW i \in Logs, Verified(L(i)), L(i) \in sent'[m]
         PROVE  Done(m, L(i))' \/ Before(pool'[m], L(i), Len(pool'[m]) + 1)
    <3>1. CASE m # n
      <4>1. L(i) \in sent[m] /\ pool'[m] = pool[m]
        BY <2>3, <2>10, <3>1
      <4>2. Done(m, L(i)) \/ Before(pool[m], L(i), Len(pool[m]) + 1)
        BY <2>10, <4>1 DEF OrderOK
      <4> QED
        BY <2>5, <4>1, <4>2 DEF Before
    <3>2. CASE m = n /\ L(i) \in sent[n]
      <4>1. Done(n, L(i)) \/ Before(s, L(i), Len(s) + 1)
        BY <1>1, <2>10, <3>2 DEF OrderOK, s
      <4>2. Before(s, L(i), Len(s) + 1) => Before(pool'[n], L(i), Len(pool'[n]) + 1)
        BY <2>4 DEF Before
      <4> QED
        BY <1>1, <2>5, <3>2, <4>1, <4>2
    <3>3. CASE m = n /\ L(i) = L(k)
      <4>1. Before(pool'[n], L(k), Len(pool'[n]) + 1)
        BY <2>4 DEF Before
      <4> QED
        BY <3>3, <4>1
    <3> QED
      BY <2>3, <2>10, <3>1, <3>2, <3>3
  <2>11. ASSUME NEW m \in Nodes, NEW i \in Logs, NEW j \in Logs,
                NEW q \in DOMAIN pool'[m], i < j, Verified(L(i)),
                pool'[m][q] = L(j)
         PROVE  Done(m, L(i))' \/ Before(pool'[m], L(i), q)
    <3>1. CASE m # n
      <4>1. q \in DOMAIN pool[m] /\ pool[m][q] = L(j)
        BY <2>3, <2>11, <3>1
      <4>2. Done(m, L(i)) \/ Before(pool[m], L(i), q)
        BY <2>11, <4>1 DEF OrderOK
      <4> QED
        BY <2>3, <2>5, <3>1, <4>2
    <3>2. CASE m = n /\ q \in DOMAIN s
      <4>1. s[q] = L(j)
        BY <2>4, <2>11, <3>2
      <4>2. Done(n, L(i)) \/ Before(s, L(i), q)
        BY <1>1, <2>11, <3>2, <4>1 DEF OrderOK, s
      <4> QED
        BY <1>1, <2>5, <2>6, <3>2, <4>2
    <3>3. CASE m = n /\ q = Len(s) + 1
      <4>1. j = k
        BY <2>1, <2>4, <2>8, <2>11, <3>3
      <4>2. L(i) \in sent[n]
        BY <2>2, <2>11, <4>1
      <4>3. Done(n, L(i)) \/ Before(s, L(i), Len(s) + 1)
        BY <1>1, <2>11, <4>2 DEF OrderOK, s
      <4> QED
        BY <1>1, <2>5, <2>6, <3>3, <4>3
    <3> QED
      BY <2>4, <2>11, <3>1, <3>2, <3>3
  <2>12. \A i, j \in Logs :
           i < j /\ Verified(L(i)) /\ L(j) \in EVMLinkVotingClosed'
             => \E m \in Nodes : Done(m, L(i))'
    BY <1>2, <2>5 DEF OrderOK
  <2>13. /\ Logs' = Logs
         /\ \A i \in Logs : L(i)' = L(i)
         /\ \A e : Verified(e)' <=> Verified(e)
    BY DEF Logs, L, Verified
  <2> QED
    BY <2>9, <2>10, <2>11, <2>12 DEF OrderOK, Logs, L, Verified
<1> QED
  BY <1>3, <1>4, <1>5

LEMMA IncludeKeepsOrder ==
    ASSUME AccountsTypeOK, NodesTypeOK, OrderOK, Threshold <= 1,
           NEW n \in Nodes, IncludeVote(n)
    PROVE  OrderOK'
<1> DEFINE s == pool[n]
<1>1. s \in Seq(Events) /\ s # <<>> /\ pool' = [pool EXCEPT ![n] = Tail(s)]
  BY DEF IncludeVote, NodesTypeOK
<1>2. PICK e : e = Head(s)
  OBVIOUS
<1>3. /\ Verified(e) => Done(n, e)'
      /\ EVMLinkVotingClosed \subseteq EVMLinkVotingClosed'
      /\ EVMLinkVotingClosed' \subseteq EVMLinkVotingClosed \cup {e}
      /\ \A m \in Nodes : lost[m] \subseteq lost'[m]
  BY <1>2, Included
<1>4. /\ 1 \in DOMAIN s /\ s[1] = e
      /\ DOMAIN s = 1 .. Len(s) /\ Len(s) \in Nat
      /\ DOMAIN Tail(s) = 1 .. Len(s) - 1
      /\ \A q \in DOMAIN Tail(s) : q + 1 \in DOMAIN s /\ Tail(s)[q] = s[q + 1]
  BY <1>1, <1>2, TailFacts
<1>5. /\ pool'[n] = Tail(s)
      /\ \A m \in Nodes \ {n} : pool'[m] = pool[m]
      /\ Len(Tail(s)) = Len(s) - 1
      /\ UNCHANGED sent
  BY <1>1 DEF IncludeVote, NodesTypeOK
<1> HIDE DEF s
<1>6. \A m \in Nodes : \A f : Done(m, f) => Done(m, f)'
  BY <1>3 DEF Done
<1>7. ASSUME NEW i \in Logs, NEW q \in Nat, Verified(L(i)),
             Before(s, L(i), q + 1)
      PROVE  Done(n, L(i))' \/ Before(Tail(s), L(i), q)
  <2>1. PICK p \in DOMAIN s : p < q + 1 /\ s[p] = L(i)
    BY <1>7 DEF Before
  <2>2. CASE p = 1
    BY <1>3, <1>4, <1>7, <2>1, <2>2
  <2>3. CASE p # 1
    <3>1. p - 1 \in DOMAIN Tail(s) /\ p - 1 < q
      BY <1>4, <2>1, <2>3
    <3>2. Tail(s)[p - 1] = L(i)
      BY <1>4, <2>1, <3>1
    <3> QED
      BY <3>1, <3>2 DEF Before
  <2> QED
    BY <2>2, <2>3
<1>8. \A m \in Nodes, i, j \in Logs :
        i < j /\ L(j) \in sent'[m] => L(i) \in sent'[m]
  BY <1>5 DEF OrderOK
<1>9. ASSUME NEW m \in Nodes, NEW i \in Logs, Verified(L(i)), L(i) \in sent'[m]
      PROVE  Done(m, L(i))' \/ Before(pool'[m], L(i), Len(pool'[m]) + 1)
  <2>1. Done(m, L(i)) \/ Before(pool[m], L(i), Len(pool[m]) + 1)
    BY <1>5, <1>9 DEF OrderOK
  <2>2. CASE m # n
    BY <1>5, <1>6, <2>1, <2>2
  <2>3. CASE m = n
    <3>1. Before(s, L(i), Len(s) + 1)
            => Done(n, L(i))' \/ Before(Tail(s), L(i), Len(s))
      BY <1>4, <1>7, <1>9
    <3>2. Len(pool'[n]) + 1 = Len(s)
      BY <1>4, <1>5
    <3> QED
      BY <1>5, <1>6, <2>1, <2>3, <3>1, <3>2 DEF s
  <2> QED
    BY <2>2, <2>3
<1>10. ASSUME NEW m \in Nodes, NEW i \in Logs, NEW j \in Logs,
              NEW q \in DOMAIN pool'[m], i < j, Verified(L(i)),
              pool'[m][q] = L(j)
       PROVE  Done(m, L(i))' \/ Before(pool'[m], L(i), q)
  <2>1. CASE m # n
    <3>1. Done(m, L(i)) \/ Before(pool[m], L(i), q)
      BY <1>5, <1>10, <2>1 DEF OrderOK
    <3> QED
      BY <1>5, <1>6, <2>1, <3>1
  <2>2. CASE m = n
    <3>1. q \in DOMAIN Tail(s) /\ q \in Nat /\ q + 1 \in DOMAIN s
          /\ s[q + 1] = L(j)
      BY <1>4, <1>5, <1>10, <2>2
    <3>2. Done(n, L(i)) \/ Before(s, L(i), q + 1)
      BY <1>10, <2>2, <3>1 DEF OrderOK, s
    <3>3. Done(n, L(i))' \/ Before(Tail(s), L(i), q)
      BY <1>6, <1>7, <1>10, <3>1, <3>2
    <3> QED
      BY <1>5, <2>2, <3>3
  <2> QED
    BY <2>1, <2>2
<1>11. ASSUME NEW i \in Logs, NEW j \in Logs, i < j, Verified(L(i)),
              L(j) \in EVMLinkVotingClosed'
       PROVE  \E m \in Nodes : Done(m, L(i))'
  <2>1. CASE L(j) \in EVMLinkVotingClosed
    BY <1>6, <1>11, <2>1 DEF OrderOK
  <2>2. CASE L(j) = e
    <3>1. Done(n, L(i)) \/ Before(s, L(i), 1)
      BY <1>4, <1>11, <2>2 DEF OrderOK, s
    <3>2. ~ Before(s, L(i), 1)
      BY <1>4 DEF Before
    <3> QED
      BY <1>6, <3>1, <3>2
  <2> QED
    BY <1>3, <1>11, <2>1, <2>2
<1> QED
  BY <1>8, <1>9, <1>10, <1>11 DEF OrderOK, Logs, L, Verified

LEMMA CrashKeepsOrder ==
    ASSUME NodesTypeOK, OrderOK, NEW n \in Nodes, Crash(n)
    PROVE  OrderOK'
<1>1. /\ pool'[n] = <<>>
      /\ lost'[n] = lost[n] \cup {pool[n][i] : i \in DOMAIN pool[n]}
      /\ \A m \in Nodes \ {n} : pool'[m] = pool[m] /\ lost'[m] = lost[m]
      /\ UNCHANGED <<sent, EVMLinkVotingClosed>>
  BY DEF Crash, NodesTypeOK, accountsVars
<1>2. \A m \in Nodes : \A f : Done(m, f) => Done(m, f)'
  BY <1>1 DEF Done
<1>3. \A f, q : Before(pool[n], f, q) => Done(n, f)'
  BY <1>1 DEF Before, Done
<1>4. \A m \in Nodes, i, j \in Logs :
        i < j /\ L(j) \in sent'[m] => L(i) \in sent'[m]
  BY <1>1 DEF OrderOK
<1>5. ASSUME NEW m \in Nodes, NEW i \in Logs, Verified(L(i)), L(i) \in sent'[m]
      PROVE  Done(m, L(i))' \/ Before(pool'[m], L(i), Len(pool'[m]) + 1)
  <2>1. Done(m, L(i)) \/ Before(pool[m], L(i), Len(pool[m]) + 1)
    BY <1>1, <1>5 DEF OrderOK
  <2> QED
    BY <1>1, <1>2, <1>3, <2>1
<1>6. ASSUME NEW m \in Nodes, NEW i \in Logs, NEW j \in Logs,
             NEW q \in DOMAIN pool'[m], i < j, Verified(L(i)),
             pool'[m][q] = L(j)
      PROVE  Done(m, L(i))' \/ Before(pool'[m], L(i), q)
  <2>1. m # n
    BY <1>1
  <2>2. Done(m, L(i)) \/ Before(pool[m], L(i), q)
    BY <1>1, <1>6, <2>1 DEF OrderOK
  <2> QED
    BY <1>1, <1>2, <2>1, <2>2
<1>7. \A i, j \in Logs :
        i < j /\ Verified(L(i)) /\ L(j) \in EVMLinkVotingClosed'
          => \E m \in Nodes : Done(m, L(i))'
  BY <1>1, <1>2 DEF OrderOK
<1> QED
  BY <1>4, <1>5, <1>6, <1>7 DEF OrderOK, Logs, L, Verified

OrderInv == Threshold <= 1 /\ Len(Partners) = 1 => OrderOK

LEMMA OrderStep ==
    AccountsTypeOK /\ NodesTypeOK /\ FinalOK /\ SentInv /\ OrderInv
      /\ [EthSyncNext]_syncVars => OrderInv'
<1> SUFFICES ASSUME AccountsTypeOK, NodesTypeOK, FinalOK, SentOK, OrderOK,
                    Threshold <= 1, Len(Partners) = 1, [EthSyncNext]_syncVars
             PROVE  OrderOK'
  BY DEF OrderInv, SentInv
<1>1. PalletOnly => UNCHANGED <<pool, sent, lost, EVMLinkVotingClosed>>
  BY DEF PalletOnly, OtherCall, EndBlock, AddKey, DelKey, Link, Unlink,
         SponsorAccount, TakePendingUnlinks, voteVars, nodeVars
<1>2. \A w \in Workers :
        AskHead(w) \/ AskLogs(w) \/ GethFails(w) \/ StoreLastBlock(w)
          => UNCHANGED <<pool, sent, lost, EVMLinkVotingClosed>>
  BY DEF AskHead, AskLogs, GethFails, StoreLastBlock, accountsVars
<1>3. MineBlock => UNCHANGED <<pool, sent, lost, EVMLinkVotingClosed>>
  BY DEF MineBlock, nodeVars, accountsVars
<1>4. UNCHANGED syncVars => UNCHANGED <<pool, sent, lost, EVMLinkVotingClosed>>
  BY DEF syncVars, nodeVars, accountsVars
<1> QED
  BY <1>1, <1>2, <1>3, <1>4, OrderUntouched, SendKeepsOrder,
     IncludeKeepsOrder, CrashKeepsOrder, StepCases

(* With one vote enough and one contract, no log takes effect before an   *)
(* earlier one, unless a pool lost a vote for the earlier one.            *)
THEOREM EffectsInOrder == EthSyncSafeSpec => []InOrderUnlessLost
<1>1. EthSyncInit => OrderInv
  BY DEF EthSyncInit, AccountsInit, OrderInv, OrderOK
<1>2. OrderInv => InOrderUnlessLost
  BY DEF OrderInv, OrderOK, Done, Logs, L, InOrderUnlessLost
<1>3. EthSyncSafeSpec => []AccountsTypeOK
  BY PalletKeepsItsSpec, AccountsTypeCorrect, PTL
<1> QED
  BY <1>1, <1>2, <1>3, FinalInvariant, SentInvariant, OrderStep, PTL
  DEF EthSyncSafeSpec

-----------------------------------------------------------------------------
(***************************************************************************)
(* What is locked, where one vote is enough.  What a pool holds are logs;  *)
(* a log that takes effect after a later one of its key was lost from a    *)
(* pool by then, as all that went before the later one had taken effect.   *)
(***************************************************************************)
PoolsHoldLogs ==
    \A n \in Nodes : \A q \in DOMAIN pool[n] : \E i \in Logs : pool[n][q] = L(i)

SameKey(i, j) == L(i).sender = L(j).sender

(* Of its key, log j is the last one that took effect. *)
LastOfKey(j) ==
    /\ L(j) \in EVMLinkVotingClosed
    /\ \A i \in Logs : i > j /\ SameKey(i, j) => L(i) \notin EVMLinkVotingClosed

EarlierLost(j) ==
    \E i \in Logs, n \in Nodes : i < j /\ SameKey(i, j) /\ L(i) \in lost[n]

LatestOK ==
    /\ PoolsHoldLogs
    /\ \A j \in Logs :
         LastOfKey(j) => EthLockedFrag[L(j).sender] = L(j).amount \/ EarlierLost(j)

(* Steps that take no log out of a pool and lock nothing. *)
LEMMA LatestUntouched ==
    ASSUME LatestOK, PoolsHoldLogs',
           UNCHANGED <<EVMLinkVotingClosed, EthLockedFrag>>,
           \A n \in Nodes : lost[n] \subseteq lost'[n]
    PROVE  LatestOK'
<1>1. ASSUME NEW j \in Logs, LastOfKey(j)'
      PROVE  EthLockedFrag'[L(j).sender] = L(j).amount \/ EarlierLost(j)'
  <2>1. LastOfKey(j)
    BY <1>1 DEF LastOfKey, SameKey, Logs, L
  <2>2. EarlierLost(j) => EarlierLost(j)'
    BY DEF EarlierLost, SameKey, Logs, L
  <2> QED
    BY <2>1, <2>2 DEF LatestOK
<1> QED
  BY <1>1 DEF LatestOK, Logs, L

(* What a counted vote does when one is enough. *)
LEMMA CountedVote ==
    ASSUME AccountsTypeOK, NodesTypeOK, Threshold <= 1,
           NEW n \in Nodes, IncludeVote(n), Counts(n, Head(pool[n]))
    PROVE  LET e == Head(pool[n])
           IN  /\ e \in Events /\ e \notin EVMLinkVotingClosed /\ Verified(e)
               /\ EVMLinkVotingClosed' = EVMLinkVotingClosed \cup {e}
               /\ EthLockedFrag'[e.sender] = e.amount
               /\ \A k \in EthKeys \ {e.sender} : EthLockedFrag'[k] = EthLockedFrag[k]
               /\ UNCHANGED lost
<1> DEFINE e == Head(pool[n])
<1>1. e \in Events
  BY TailFacts DEF IncludeVote, NodesTypeOK
<1>2. InternalLockUpdate(KeyOf[n], e) /\ UNCHANGED lost
  BY DEF IncludeVote, Counts
<1>3. e.sender \in EthKeys /\ EVMLinkVoting[e] \in Nat
  BY <1>1, LogFields DEF AccountsTypeOK
<1> HIDE DEF e
<1>4. Quorum(e)
  BY <1>3, ThresholdIsNat DEF Quorum
<1>5. /\ e \notin EVMLinkVotingClosed /\ Verified(e)
      /\ EVMLinkVotingClosed' = EVMLinkVotingClosed \cup {e}
      /\ EthLockedFrag' = [EthLockedFrag EXCEPT ![e.sender] = e.amount]
  BY <1>2, <1>4 DEF InternalLockUpdate, Carry, Open
<1>6. EthLockedFrag \in [EthKeys -> Nat \cup {None}]
  BY DEF AccountsTypeOK
<1>7. /\ EthLockedFrag'[e.sender] = e.amount
      /\ \A k \in EthKeys \ {e.sender} : EthLockedFrag'[k] = EthLockedFrag[k]
  BY <1>3, <1>5, <1>6
<1> QED
  BY <1>1, <1>2, <1>5, <1>7 DEF e

LEMMA IncludeKeepsLogs ==
    ASSUME NodesTypeOK, PoolsHoldLogs, NEW n \in Nodes, IncludeVote(n)
    PROVE  PoolsHoldLogs'
<1>1. /\ pool[n] \in Seq(Events) /\ pool[n] # <<>>
      /\ pool' = [pool EXCEPT ![n] = Tail(pool[n])]
  BY DEF IncludeVote, NodesTypeOK
<1>2. \A q \in DOMAIN Tail(pool[n]) :
        q + 1 \in DOMAIN pool[n] /\ Tail(pool[n])[q] = pool[n][q + 1]
  BY <1>1, TailFacts
<1>3. /\ pool'[n] = Tail(pool[n])
      /\ \A m \in Nodes \ {n} : pool'[m] = pool[m]
  BY <1>1 DEF NodesTypeOK
<1>4. \A m \in Nodes : \A q \in DOMAIN pool'[m] :
        \E p \in DOMAIN pool[m] : pool'[m][q] = pool[m][p]
  BY <1>2, <1>3
<1> QED
  BY <1>4 DEF PoolsHoldLogs, Logs, L

LEMMA IncludeKeepsLatest ==
    ASSUME AccountsTypeOK, NodesTypeOK, OrderOK, LatestOK,
           Threshold <= 1, Len(Partners) = 1,
           NEW n \in Nodes, IncludeVote(n)
    PROVE  LatestOK'
<1>1. PoolsHoldLogs'
  BY IncludeKeepsLogs DEF LatestOK
<1>2. CASE ~ Counts(n, Head(pool[n]))
  <2>1. UNCHANGED <<EVMLinkVotingClosed, EthLockedFrag>>
    BY <1>2 DEF IncludeVote, accountsVars, voteVars
  <2>2. \A m \in Nodes : lost[m] \subseteq lost'[m]
    BY DEF IncludeVote, NodesTypeOK
  <2> QED
    BY <1>1, <2>1, <2>2, LatestUntouched
<1>3. CASE Counts(n, Head(pool[n]))
  <2> DEFINE e == Head(pool[n])
  <2>1. /\ e \in Events /\ e \notin EVMLinkVotingClosed /\ Verified(e)
        /\ EVMLinkVotingClosed' = EVMLinkVotingClosed \cup {e}
        /\ EthLockedFrag'[e.sender] = e.amount
        /\ \A k \in EthKeys \ {e.sender} : EthLockedFrag'[k] = EthLockedFrag[k]
        /\ UNCHANGED lost
    BY <1>3, CountedVote
  <2>2. PICK i \in Logs : e = L(i)
    <3>1. 1 \in DOMAIN pool[n] /\ pool[n][1] = Head(pool[n])
      BY TailFacts DEF IncludeVote, NodesTypeOK
    <3> QED
      BY <3>1 DEF LatestOK, PoolsHoldLogs
  <2> HIDE DEF e
  <2>3. ASSUME NEW j \in Logs, LastOfKey(j)'
        PROVE  EthLockedFrag'[L(j).sender] = L(j).amount \/ EarlierLost(j)'
    <3>1. L(j).sender \in EthKeys
      BY LogFacts, LogFields
    <3>2. EarlierLost(j)' <=> EarlierLost(j)
      BY <2>1 DEF EarlierLost, SameKey, Logs, L
    <3>3. CASE i = j
      BY <2>1, <2>2, <3>3
    <3>4. CASE i # j
      <4>0. i \in Nat /\ j \in Nat /\ L(i) # L(j)
        <5>1. i \in Nat /\ j \in Nat
          BY LogFacts
        <5>2. i < j \/ j < i
          BY <3>4, <5>1
        <5> QED
          BY <5>1, <5>2, LogFacts
      <4>1. L(j) \in EVMLinkVotingClosed
        BY <2>1, <2>2, <2>3, <4>0 DEF LastOfKey, L
      <4>2. LastOfKey(j)
        BY <2>1, <2>3, <4>1 DEF LastOfKey, SameKey, Logs, L
      <4>3. CASE ~ SameKey(i, j)
        <5>1. EthLockedFrag'[L(j).sender] = EthLockedFrag[L(j).sender]
          BY <2>1, <2>2, <3>1, <4>3 DEF SameKey
        <5> QED
          BY <3>2, <4>2, <5>1 DEF LatestOK
      <4>4. CASE SameKey(i, j)
        <5>1. L(i) \in EVMLinkVotingClosed'
          BY <2>1, <2>2
        <5>2. ~ (i > j)
          BY <2>3, <4>4, <5>1 DEF LastOfKey, SameKey, Logs, L
        <5>3. i < j
          BY <3>4, <4>0, <5>2
        <5>4. PICK m \in Nodes : Done(m, L(i))
          BY <2>1, <2>2, <4>1, <5>3 DEF OrderOK
        <5>5. L(i) \in lost[m]
          BY <2>1, <2>2, <5>4 DEF Done
        <5>6. EarlierLost(j)
          BY <4>4, <5>3, <5>5 DEF EarlierLost
        <5> QED
          BY <3>2, <5>6
      <4> QED
        BY <4>3, <4>4
    <3> QED
      BY <3>3, <3>4
  <2> QED
    BY <1>1, <2>3 DEF LatestOK, Logs, L
<1> QED
  BY <1>2, <1>3

LEMMA SendKeepsLogs ==
    ASSUME NodesTypeOK, PoolsHoldLogs, Len(Partners) = 1,
           NEW w \in Workers, SendVote(w)
    PROVE  PoolsHoldLogs'
<1> DEFINE n == NodeOf[w]
<1>1. n \in Nodes /\ pool[n] \in Seq(Events) /\ run[w].contract = 1
  BY WorkersRunOnNodes, LogFacts DEF NodesTypeOK, Runs
<1>2. run[w].todo # None /\ run[w].todo \subseteq Logs
  BY <1>1 DEF SendVote, NodesTypeOK, RunOK, Logs
<1>3. PICK k \in run[w].todo :
        \/ pool' = [pool EXCEPT ![n] = Append(@, L(k))]
        \/ UNCHANGED pool
  BY <1>1 DEF SendVote, L
<1>4. CASE UNCHANGED pool
  BY <1>4 DEF PoolsHoldLogs, Logs, L
<1>5. CASE pool' = [pool EXCEPT ![n] = Append(@, L(k))]
  <2>1. k \in Logs /\ L(k) \in Events
    BY <1>2, LogFacts
  <2>2. /\ pool'[n] = Append(pool[n], L(k))
        /\ \A m \in Nodes \ {n} : pool'[m] = pool[m]
    BY <1>1, <1>5 DEF NodesTypeOK
  <2>3. \A q \in DOMAIN pool'[n] :
          pool'[n][q] = L(k) \/ (q \in DOMAIN pool[n] /\ pool'[n][q] = pool[n][q])
    BY <1>1, <2>1, <2>2, AppendFacts
  <2> HIDE DEF n
  <2>4. \A m \in Nodes : \A q \in DOMAIN pool'[m] : \E i \in Logs : pool'[m][q] = L(i)
    <3> SUFFICES ASSUME NEW m \in Nodes, NEW q \in DOMAIN pool'[m]
                 PROVE  \E i \in Logs : pool'[m][q] = L(i)
      OBVIOUS
    <3>1. CASE m = n
      BY <1>1, <2>1, <2>3, <3>1 DEF PoolsHoldLogs
    <3>2. CASE m # n
      BY <2>2, <3>2 DEF PoolsHoldLogs
    <3> QED
      BY <3>1, <3>2
  <2> QED
    BY <2>4 DEF PoolsHoldLogs, Logs, L
<1> QED
  BY <1>3, <1>4, <1>5

LatestInv == Threshold <= 1 /\ Len(Partners) = 1 => LatestOK

LEMMA LatestStep ==
    AccountsTypeOK /\ NodesTypeOK /\ OrderInv /\ LatestInv
      /\ [EthSyncNext]_syncVars => LatestInv'
<1> SUFFICES ASSUME AccountsTypeOK, NodesTypeOK, OrderOK, LatestOK,
                    Threshold <= 1, Len(Partners) = 1, [EthSyncNext]_syncVars
             PROVE  LatestOK'
  BY DEF LatestInv, OrderInv
<1> DEFINE Still == UNCHANGED <<pool, lost, EVMLinkVotingClosed, EthLockedFrag>>
<1>1. Still => LatestOK'
  <2>1. Still => PoolsHoldLogs'
    BY DEF LatestOK, PoolsHoldLogs, Logs, L
  <2> QED
    BY <2>1, LatestUntouched
<1>2. PalletOnly => Still
  BY DEF PalletOnly, OtherCall, EndBlock, AddKey, DelKey, Link, Unlink,
         SponsorAccount, TakePendingUnlinks, voteVars, nodeVars
<1>3. \A w \in Workers :
        AskHead(w) \/ AskLogs(w) \/ GethFails(w) \/ StoreLastBlock(w) => Still
  BY DEF AskHead, AskLogs, GethFails, StoreLastBlock, accountsVars, voteVars
<1>4. MineBlock => Still
  BY DEF MineBlock, nodeVars, accountsVars, voteVars
<1>5. UNCHANGED syncVars => Still
  BY DEF syncVars, nodeVars, accountsVars, voteVars
<1> HIDE DEF Still
<1>6. ASSUME NEW w \in Workers, SendVote(w)
      PROVE  LatestOK'
  <2>1. UNCHANGED <<lost, EVMLinkVotingClosed, EthLockedFrag>>
    BY <1>6 DEF SendVote, accountsVars, voteVars
  <2>2. PoolsHoldLogs'
    BY <1>6, SendKeepsLogs DEF LatestOK
  <2> QED
    BY <2>1, <2>2, LatestUntouched
<1>7. ASSUME NEW n \in Nodes, Crash(n)
      PROVE  LatestOK'
  <2>1. /\ pool' = [pool EXCEPT ![n] = <<>>]
        /\ lost' = [lost EXCEPT ![n] = @ \cup {pool[n][i] : i \in DOMAIN pool[n]}]
        /\ UNCHANGED <<EVMLinkVotingClosed, EthLockedFrag>>
    BY <1>7 DEF Crash, accountsVars, voteVars
  <2>2. \A m \in Nodes : lost[m] \subseteq lost'[m]
    BY <2>1 DEF NodesTypeOK
  <2>3. \A m \in Nodes : pool'[m] = <<>> \/ pool'[m] = pool[m]
    BY <2>1 DEF NodesTypeOK
  <2>4. PoolsHoldLogs'
    BY <2>3 DEF LatestOK, PoolsHoldLogs, Logs, L
  <2> QED
    BY <2>1, <2>2, <2>4, LatestUntouched
<1> QED
  BY <1>1, <1>2, <1>3, <1>4, <1>5, <1>6, <1>7, IncludeKeepsLatest, StepCases

(* With one vote enough and one contract, the last log of a key that took *)
(* effect says what it has locked, unless a pool lost an earlier one.     *)
THEOREM LatestLocked == EthSyncSafeSpec => []LatestUnlessLost
<1>1. EthSyncInit => OrderInv /\ LatestInv
  BY DEF EthSyncInit, AccountsInit, OrderInv, OrderOK, LatestInv, LatestOK,
         PoolsHoldLogs, LastOfKey
<1>2. LatestInv => LatestUnlessLost
  BY DEF LatestInv, LatestOK, LastOfKey, EarlierLost, SameKey, Logs, L,
         LatestUnlessLost
<1>3. EthSyncSafeSpec => []AccountsTypeOK
  BY PalletKeepsItsSpec, AccountsTypeCorrect, PTL
<1> QED
  BY <1>1, <1>2, <1>3, FinalInvariant, SentInvariant, OrderStep, LatestStep, PTL
  DEF EthSyncSafeSpec

=============================================================================
