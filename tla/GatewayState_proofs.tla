------------------------- MODULE GatewayState_proofs -------------------------
(****************************************************************************)
(* Proofs about GatewayState, for any number of commands at one time, any   *)
(* GatewayClasses and lists, and whatever calls fail:                       *)
(*                                                                          *)
(*   TypeCorrect           TypeOK                                           *)
(*   CommandsAreAccounted  CommandInv, the inductive invariant of the others*)
(*   ForwardEndsInTime     NoForwardLeft                                    *)
(*   HintsAreGone          HintsGone                                        *)
(*   SnapshotIsTrue        SnapshotTrue                                     *)
(*   SummaryIsExact        SummaryExact                                     *)
(*                                                                          *)
(* A command is changed by its own steps and, as a bystander, by whatever   *)
(* changes the cluster.  Bystanders says how, once for all parts; the lemma *)
(* of a part has one step per action of the command itself.  What a         *)
(* snapshot's summary says is a matter of its lists alone and comes last.   *)
(****************************************************************************)
EXTENDS GatewayState, Recursion, WellFoundedInduction, TLAPS

LEMMA KindsFour ==
    /\ "gateway" \in Kinds /\ "httproute" \in Kinds /\ "grpcroute" \in Kinds /\ "policy" \in Kinds
    /\ Kinds \subseteq Points
    /\ {"idle", "describe", "list", "patch", "class", "backend", "pods", "forward", "info",
        "dump", "done"} \subseteq Points
  BY DEF Kinds, Points

LEMMA InSlot == \A i \in Slots : StateTypes => cmd[i] \in Slot
  BY DEF StateTypes

\* A command with some of its fields written.
LEMMA SlotPc ==
    ASSUME NEW c \in Slot, NEW l \in Points PROVE [c EXCEPT !.pc = l] \in Slot
  BY DEF Slot

LEMMA SlotTodo ==
    ASSUME NEW c \in Slot, NEW l \in Points, NEW todo \in SUBSET Classes
    PROVE  [c EXCEPT !.pc = l, !.todo = todo] \in Slot /\ [c EXCEPT !.todo = todo] \in Slot
  BY DEF Slot

LEMMA SlotClass ==
    ASSUME NEW c \in Slot, NEW l \in Points, NEW o \in {0} \cup Ours, NEW b \in BOOLEAN
    PROVE  [c EXCEPT !.pc = l, !.class = o, !.hinted = b] \in Slot
  BY DEF Slot

LEMMA SlotRead ==
    ASSUME NEW c \in Slot, NEW l \in Points, NEW k \in Kinds, NEW n \in Nat
    PROVE  [c EXCEPT !.pc = l, !.read[k] = n] \in Slot
  BY DEF Slot

LEMMA SlotForward ==
    ASSUME NEW c \in Slot, NEW l \in Points, NEW b \in BOOLEAN
    PROVE  [c EXCEPT !.pc = l, !.forward = b] \in Slot /\ [c EXCEPT !.forward = b] \in Slot
  BY DEF Slot

LEMMA SlotEnvoy ==
    ASSUME NEW c \in Slot, NEW b \in BOOLEAN, NEW e \in BOOLEAN
    PROVE  [c EXCEPT !.envoy = e, !.forward = b] \in Slot
  BY DEF Slot

LEMMA SlotFailed ==
    ASSUME NEW c \in Slot, NEW s \in SUBSET Points PROVE [c EXCEPT !.failed = s] \in Slot
  BY DEF Slot

LEMMA SlotNoticed ==
    ASSUME NEW c \in Slot, NEW h \in BOOLEAN
    PROVE  [c EXCEPT !.quiet = FALSE, !.reapplied = @ \/ h] \in Slot
  BY DEF Slot

LEMMA EndedSlot ==
    ASSUME StateTypes, NEW i \in Slots, NEW r \in {"none", "ok", "noapi", "error"}
    PROVE  Ended(i, r) \in Slot
<1>1. cmd[i] \in Slot
  BY InSlot
<1> QED
  BY <1>1, KindsFour DEF Slot, Ended

LEMMA FailedSlot ==
    ASSUME StateTypes, NEW i \in Slots
    PROVE  [Ended(i, "error") EXCEPT !.failed = @ \cup {cmd[i].pc}] \in Slot
<1>1. Ended(i, "error") \in Slot /\ cmd[i].pc \in Points
  BY EndedSlot, InSlot DEF Slot
<1>2. Ended(i, "error").failed \cup {cmd[i].pc} \in SUBSET Points
  BY <1>1 DEF Slot
<1> QED
  BY <1>1, <1>2, SlotFailed

LEMMA ToSlot ==
    ASSUME StateTypes, NEW i \in Slots, NEW c \in Slot, To(i, c), NoEffect
    PROVE  StateTypes'
  BY DEF StateTypes, To, NoEffect

LEMMA FailsSlot ==
    ASSUME StateTypes, NEW i \in Slots, Fails(i), NoEffect PROVE StateTypes'
  BY FailedSlot, ToSlot DEF Fails

LEMMA WithoutEnvoySlot ==
    ASSUME StateTypes, NEW i \in Slots, WithoutEnvoy(i) PROVE StateTypes'
<1>1. Ended(i, "ok") \in Slot
  BY EndedSlot
<1>2. [Ended(i, "ok") EXCEPT !.forward = FALSE] \in Slot
  BY <1>1, KindsFour, SlotForward
<1> QED
  BY <1>2, ToSlot DEF WithoutEnvoy

LEMMA NoCommandSlot == NoCommand \in Slot
<1>1. Nothing \in [Kinds -> Nat]
  BY DEF Nothing
<1> QED
  BY <1>1, KindsFour DEF NoCommand, Slot

LEMMA NoticedSlots ==
    ASSUME StateTypes, NEW by, NEW hint \in BOOLEAN
    PROVE  Noticed(by, hint) \in [Slots -> Slot]
<1>1. ASSUME NEW j \in Slots
      PROVE  [cmd[j] EXCEPT !.quiet = FALSE, !.reapplied = @ \/ hint] \in Slot
  BY <1>1, InSlot, SlotNoticed
<1> QED
  BY <1>1, InSlot DEF Noticed

\* The first of envoy-gateway's classes that are there.
LEMMA FirstIsThere ==
    ASSUME NEW S \in SUBSET Ours, S # {}
    PROVE  (CHOOSE c \in S : \A d \in S : c <= d) \in S
<1>1. S \in SUBSET Nat
  BY GatewayAssumption
<1>2. \E n \in S : \A m \in S : n <= m
  BY <1>1, LeastNumber
<1> QED
  BY <1>2

\* One step per action, here and below.
LEMMA TypesStep == StateTypes /\ (\A i \in Slots : Flow(i)) /\ [Next]_vars => StateTypes'
<1> SUFFICES ASSUME StateTypes, \A i \in Slots : Flow(i), [Next]_vars PROVE StateTypes'
  OBVIOUS
<1>1. ASSUME NEW k \in Kinds, Edit(k) PROVE StateTypes'
  <2>1. PICK n \in DOMAIN Tables[k] : held' = [held EXCEPT ![k] = n]
    BY <1>1, TablesAssumption DEF Edit
  <2>2. n \in Nat
    BY <2>1, TablesAssumption
  <2>3. held' \in [Kinds -> Nat] /\ \A l \in Kinds : held'[l] \in DOMAIN Tables[l]
    BY <2>1, <2>2 DEF StateTypes
  <2> QED
    BY <1>1, <2>3, NoticedSlots DEF Edit, StateTypes
<1>2. ASSUME NEW c \in Classes, InstallPlatform(c) PROVE StateTypes'
  BY <1>2, NoticedSlots DEF InstallPlatform, StateTypes
<1>3. ASSUME NEW c \in Classes, DeleteClass(c) PROVE StateTypes'
  BY <1>3, NoticedSlots DEF DeleteClass, StateTypes
<1>4. ASSUME NEW i \in Slots, Begin(i) PROVE StateTypes'
  <2>1. PICK v \in VerbsOf[i], c \in Classes :
          cmd' = [cmd EXCEPT ![i] =
              [NoCommand EXCEPT !.verb = v, !.name = c,
                 !.pc = CASE v = "clear" -> "describe" [] v = "prepare" -> "list"
                          [] OTHER -> "class"]]
    BY <1>4 DEF Begin
  <2>2. PICK l \in Points :
          cmd' = [cmd EXCEPT ![i] = [NoCommand EXCEPT !.verb = v, !.name = c, !.pc = l]]
    BY <2>1, KindsFour
  <2>3. [NoCommand EXCEPT !.verb = v, !.name = c, !.pc = l] \in Slot
    BY NoCommandSlot DEF Slot
  <2> QED
    BY <1>4, <2>2, <2>3 DEF Begin, StateTypes
<1>5. ASSUME NEW i \in Slots, ListHinted(i) PROVE StateTypes'
  <2>1. [cmd[i] EXCEPT !.pc = "patch", !.todo = Hinted] \in Slot
    BY KindsFour, InSlot, SlotTodo DEF Hinted
  <2> QED
    BY <1>5, <2>1, ToSlot, FailsSlot DEF ListHinted, kubectlFails
<1>6. ASSUME NEW i \in Slots, Describe(i) PROVE StateTypes'
  <2>1. cmd[i].name \in Classes => [cmd[i] EXCEPT !.pc = "patch", !.todo = {cmd[i].name}] \in Slot
    BY KindsFour, InSlot, SlotTodo
  <2>2. cmd[i].name \in Classes
    BY <1>6 DEF Describe, Is, Flow
  <2> QED
    BY <1>6, <2>1, <2>2, ToSlot, FailsSlot, EndedSlot DEF Describe, kubectlFails
<1>7. ASSUME NEW i \in Slots, patchAnnotationRemove(i) PROVE StateTypes'
  <2>1. ASSUME NEW c \in cmd[i].todo,
               class' = [class EXCEPT ![c] = "plain"],
               cmd' = [Noticed(i, FALSE) EXCEPT ![i].todo = @ \ {c}],
               UNCHANGED <<api, held, edits, started>>
        PROVE  StateTypes'
    <3>1. [Noticed(i, FALSE)[i] EXCEPT !.todo = @ \ {c}] \in Slot
      <4>1. Noticed(i, FALSE)[i] \in Slot
        BY NoticedSlots
      <4>2. Noticed(i, FALSE)[i].todo \ {c} \in SUBSET Classes
        BY <4>1 DEF Slot
      <4> QED
        BY <4>1, <4>2, SlotTodo, KindsFour
    <3>2. cmd' \in [Slots -> Slot]
      BY <2>1, <3>1, NoticedSlots
    <3>3. class' \in [Classes -> {"absent", "plain", "hinted"}]
      BY <2>1 DEF StateTypes
    <3> QED
      BY <2>1, <3>2, <3>3 DEF StateTypes
  <2>2. [cmd[i] EXCEPT !.pc = "class"] \in Slot
    BY KindsFour, InSlot, SlotPc
  <2> QED
    BY <1>7, <2>1, <2>2, ToSlot, FailsSlot, EndedSlot DEF patchAnnotationRemove, kubectlFails
<1>8. ASSUME NEW i \in Slots, fetchGatewayClass(i) PROVE StateTypes'
  <2> DEFINE there == {c \in Ours : class[c] # "absent"}
             first == CHOOSE c \in there : \A d \in there : c <= d
             seen  == [cmd[i] EXCEPT !.pc = "gateway",
                         !.class = IF there = {} THEN 0 ELSE first,
                         !.hinted = there # {} /\ class[first] = "hinted"]
  <2>1. there # {} => first \in Ours
    BY FirstIsThere
  <2>2. seen \in Slot
    <3> HIDE DEF there, first
    <3>1. (IF there = {} THEN 0 ELSE first) \in {0} \cup Ours
      BY <2>1
    <3>2. (there # {} /\ class[first] = "hinted") \in BOOLEAN
      OBVIOUS
    <3> QED
      BY <3>1, <3>2, KindsFour, InSlot, SlotClass
  <2>3. \/ To(i, Ended(i, "noapi")) /\ NoEffect
        \/ To(i, seen) /\ NoEffect
        \/ Fails(i) /\ NoEffect
    BY <1>8 DEF fetchGatewayClass, kubectlFails
  <2> QED
    BY <2>2, <2>3, ToSlot, FailsSlot, EndedSlot
<1>9. ASSUME NEW i \in Slots, NEW k \in Kinds, NEW next \in Kinds \cup {"backend"}, Get(i, k, next)
      PROVE  StateTypes'
  <2>1. [cmd[i] EXCEPT !.pc = next, !.read[k] = held[k]] \in Slot
    BY KindsFour, InSlot, SlotRead DEF StateTypes
  <2>2. [cmd[i] EXCEPT !.pc = next] \in Slot
    BY KindsFour, InSlot, SlotPc
  <2> QED
    BY <1>9, <2>1, <2>2, ToSlot, FailsSlot DEF Get, kubectlFails
<1>10. ASSUME NEW i \in Slots,
              fetchGateways(i) \/ fetchHTTPRoutes(i) \/ fetchGRPCRoutes(i)
                \/ fetchClientTrafficPolicies(i)
       PROVE  StateTypes'
  BY <1>9, <1>10, KindsFour DEF fetchGateways, fetchHTTPRoutes, fetchGRPCRoutes,
                                fetchClientTrafficPolicies
<1>11. ASSUME NEW i \in Slots, fetchBackendTrafficPolicies(i) PROVE StateTypes'
  <2>1. [cmd[i] EXCEPT !.pc = "pods"] \in Slot
    BY KindsFour, InSlot, SlotPc
  <2> QED
    BY <1>11, <2>1, ToSlot, FailsSlot DEF fetchBackendTrafficPolicies, kubectlFails
<1>12. ASSUME NEW i \in Slots, pickEnvoyProxyPod(i) PROVE StateTypes'
  <2>1. [cmd[i] EXCEPT !.pc = "forward", !.forward = TRUE] \in Slot
    BY KindsFour, InSlot, SlotForward
  <2> QED
    BY <1>12, <2>1, ToSlot, WithoutEnvoySlot DEF pickEnvoyProxyPod
<1>13. ASSUME NEW i \in Slots, startEnvoyAdminPortForward(i) \/ ServerInfo(i) PROVE StateTypes'
  <2>1. [cmd[i] EXCEPT !.pc = "info"] \in Slot /\ [cmd[i] EXCEPT !.pc = "dump"] \in Slot
    BY KindsFour, InSlot, SlotPc
  <2> QED
    BY <1>13, <2>1, ToSlot, WithoutEnvoySlot DEF startEnvoyAdminPortForward, ServerInfo
<1>14. ASSUME NEW i \in Slots, ConfigDump(i) PROVE StateTypes'
  <2>1. [Ended(i, "ok") EXCEPT !.envoy = TRUE, !.forward = FALSE] \in Slot
    BY EndedSlot, SlotEnvoy
  <2> QED
    BY <1>14, <2>1, ToSlot, WithoutEnvoySlot DEF ConfigDump
<1>15. ASSUME NEW i \in Slots, Interrupt(i) PROVE StateTypes'
  BY <1>15, FailsSlot, WithoutEnvoySlot DEF Interrupt
<1>16. CASE UNCHANGED vars
  BY <1>16 DEF vars, StateTypes
<1> QED
  BY <1>1, <1>2, <1>3, <1>4, <1>5, <1>6, <1>7, <1>8, <1>10, <1>11, <1>12, <1>13, <1>14,
     <1>15, <1>16
     DEF Next, Cluster, Command, Clear, Fetch

--------------------------------------------------------------------------------
(* What a command sees of the steps of others *)

Own(i) == Begin(i) \/ Command(i) \/ Interrupt(i)

Untouched(i) == cmd'[i] = cmd[i] /\ UNCHANGED <<api, class, held>>

Disturbed(i) ==
    \E hint \in BOOLEAN :
       /\ cmd'[i] = [cmd[i] EXCEPT !.quiet = FALSE, !.reapplied = @ \/ hint]
       /\ ~hint => Hinted' \subseteq Hinted

\* A command that goes on has the slot to itself.
LEMMA ToHere ==
    ASSUME StateTypes, NEW i \in Slots, NEW c, To(i, c)
    PROVE  cmd'[i] = c /\ \A j \in Slots \ {i} : cmd'[j] = cmd[j]
  BY DEF StateTypes, To

LEMMA Bystanders ==
    ASSUME StateTypes, NEW i \in Slots, [Next]_vars
    PROVE  Own(i) \/ Untouched(i) \/ Disturbed(i)
<1> SUFFICES ASSUME ~ Own(i) PROVE Untouched(i) \/ Disturbed(i)
  OBVIOUS
<1>1. ASSUME NEW by, NEW hint \in BOOLEAN, by # i
      PROVE  Noticed(by, hint)[i] = [cmd[i] EXCEPT !.quiet = FALSE, !.reapplied = @ \/ hint]
  BY <1>1 DEF Noticed
<1>2. i # 0
  BY GatewayAssumption
<1>3. ASSUME NEW k \in Kinds, Edit(k) PROVE Disturbed(i)
  <2>1. cmd' = Noticed(0, FALSE) /\ class' = class
    BY <1>3 DEF Edit
  <2> QED
    BY <1>1, <1>2, <2>1 DEF Disturbed, Hinted
<1>4. ASSUME NEW c \in Classes, InstallPlatform(c) PROVE Disturbed(i)
  <2>1. cmd' = Noticed(0, TRUE)
    BY <1>4 DEF InstallPlatform
  <2> QED
    BY <1>1, <1>2, <2>1 DEF Disturbed
<1>5. ASSUME NEW c \in Classes, DeleteClass(c) PROVE Disturbed(i)
  <2>1. cmd' = Noticed(0, FALSE) /\ class' = [class EXCEPT ![c] = "absent"]
    BY <1>5 DEF DeleteClass
  <2>2. Hinted' \subseteq Hinted
    BY <2>1 DEF Hinted, StateTypes
  <2> QED
    BY <1>1, <1>2, <2>1, <2>2 DEF Disturbed
<1>6. ASSUME NEW j \in Slots \ {i}, NEW c, To(j, c), NoEffect PROVE Untouched(i)
  BY <1>6, ToHere DEF Untouched, NoEffect
<1>7. ASSUME NEW j \in Slots \ {i}, Begin(j) PROVE Untouched(i)
  BY <1>7 DEF Begin, Untouched, StateTypes
<1>8. ASSUME NEW j \in Slots \ {i}, patchAnnotationRemove(j) PROVE Untouched(i) \/ Disturbed(i)
  <2>1. ASSUME NEW c \in cmd[j].todo,
               class' = [class EXCEPT ![c] = "plain"],
               cmd' = [Noticed(j, FALSE) EXCEPT ![j].todo = @ \ {c}]
        PROVE  Disturbed(i)
    <3>1. cmd'[i] = Noticed(j, FALSE)[i]
      BY <2>1 DEF Noticed
    <3>2. Hinted' \subseteq Hinted
      BY <2>1 DEF Hinted, StateTypes
    <3> QED
      BY <1>1, <3>1, <3>2 DEF Disturbed
  <2> QED
    BY <1>6, <1>8, <2>1 DEF patchAnnotationRemove, kubectlFails, Fails
<1>9. ASSUME NEW j \in Slots \ {i}, ListHinted(j) \/ Describe(j) PROVE Untouched(i)
  BY <1>6, <1>9 DEF ListHinted, Describe, kubectlFails, Fails
<1>10. ASSUME NEW j \in Slots \ {i}, Fetch(j) \/ Interrupt(j) PROVE Untouched(i)
  BY <1>6, <1>10 DEF Fetch, Interrupt, fetchGatewayClass, fetchGateways, fetchHTTPRoutes,
              fetchGRPCRoutes, fetchClientTrafficPolicies, fetchBackendTrafficPolicies, Get,
              pickEnvoyProxyPod, startEnvoyAdminPortForward, ServerInfo, ConfigDump,
              WithoutEnvoy, kubectlFails, Fails
<1>11. CASE UNCHANGED vars
  BY <1>11 DEF vars, Untouched
<1> QED
  BY <1>3, <1>4, <1>5, <1>7, <1>8, <1>9, <1>10, <1>11
     DEF Next, Cluster, Command, Clear, Own

--------------------------------------------------------------------------------
(* The parts of the invariant *)

\* The values a command has after its own step.
LEMMA AfterBegin ==
    ASSUME StateTypes, NEW i \in Slots, Begin(i)
    PROVE  /\ UNCHANGED <<api, class, held>>
           /\ cmd'[i].verb \in VerbsOf[i] /\ cmd'[i].name \in Classes
           /\ cmd'[i].pc = CASE cmd'[i].verb = "clear" -> "describe"
                             [] cmd'[i].verb = "prepare" -> "list" [] OTHER -> "class"
           /\ cmd'[i].result = "none" /\ cmd'[i].todo = {} /\ cmd'[i].failed = {}
           /\ cmd'[i].class = 0 /\ ~cmd'[i].hinted /\ ~cmd'[i].forward
           /\ \A k \in Kinds : cmd'[i].read[k] = 0
  BY DEF Begin, NoCommand, Nothing, StateTypes

\* What a command does, call by call: its own step is one of these.
Failing(i) ==
    /\ Running(i) /\ cmd[i].pc \notin {"pods", "forward", "info", "dump"}
    /\ Fails(i) /\ NoEffect

Leaving(i) == cmd[i].pc \in {"pods", "forward", "info", "dump"} /\ WithoutEnvoy(i)

Goes(i, c) == cmd'[i] = c /\ UNCHANGED <<api, class, held>>

Listing(i) == Is(i, "list") /\ Goes(i, [cmd[i] EXCEPT !.pc = "patch", !.todo = Hinted])

Describing(i) ==
    /\ Is(i, "describe")
    /\ \/ /\ class[cmd[i].name] = "hinted"
          /\ Goes(i, [cmd[i] EXCEPT !.pc = "patch", !.todo = {cmd[i].name}])
       \/ class[cmd[i].name] = "plain" /\ Goes(i, Ended(i, "ok"))

Patching(i) ==
    /\ Is(i, "patch")
    /\ \/ \E c \in cmd[i].todo :
            /\ class[c] = "hinted" /\ class' = [class EXCEPT ![c] = "plain"]
            /\ cmd'[i] = [cmd[i] EXCEPT !.todo = @ \ {c}] /\ UNCHANGED <<api, held>>
       \/ /\ cmd[i].todo = {}
          /\ Goes(i, IF cmd[i].verb = "clear" THEN Ended(i, "ok")
                     ELSE [cmd[i] EXCEPT !.pc = "class"])

Classing(i) ==
    /\ Is(i, "class")
    /\ \/ api = "none" /\ Goes(i, Ended(i, "noapi"))
       \/ /\ api # "none"
          /\ \E o \in {0} \cup Ours :
               /\ (o = 0) = (\A p \in Ours : class[p] = "absent")
               /\ o # 0 => class[o] # "absent"
               /\ Goes(i, [cmd[i] EXCEPT !.pc = "gateway", !.class = o,
                              !.hinted = o # 0 /\ class[o] = "hinted"])

Getting(i) ==
    \E k \in Kinds :
      /\ Is(i, k)
      /\ LET next == CASE k = "gateway" -> "httproute" [] k = "httproute" -> "grpcroute"
                       [] k = "grpcroute" -> "policy" [] OTHER -> "backend"
         IN IF Served(k) THEN Goes(i, [cmd[i] EXCEPT !.pc = next, !.read[k] = held[k]])
            ELSE k = "policy" /\ Goes(i, [cmd[i] EXCEPT !.pc = next])

Proxying(i) ==
    \/ Is(i, "backend") /\ Goes(i, [cmd[i] EXCEPT !.pc = "pods"])
    \/ Is(i, "pods") /\ Goes(i, [cmd[i] EXCEPT !.pc = "forward", !.forward = TRUE])
    \/ Is(i, "forward") /\ Goes(i, [cmd[i] EXCEPT !.pc = "info"])
    \/ Is(i, "info") /\ Goes(i, [cmd[i] EXCEPT !.pc = "dump"])
    \/ Is(i, "dump") /\ Goes(i, [Ended(i, "ok") EXCEPT !.envoy = TRUE, !.forward = FALSE])

LEMMA OwnSteps ==
    ASSUME StateTypes, NEW i \in Slots, Own(i)
    PROVE  \/ Begin(i) \/ Failing(i) \/ Leaving(i) \/ Listing(i) \/ Describing(i)
           \/ Patching(i) \/ Classing(i) \/ Getting(i) \/ Proxying(i)
<1>0. ASSUME NEW c, To(i, c), NoEffect PROVE Goes(i, c)
  BY <1>0, ToHere DEF Goes, NoEffect
<1>1. ASSUME NEW l \in Points \ {"idle", "done", "pods", "forward", "info", "dump"},
             Is(i, l), kubectlFails(i)
      PROVE  Failing(i)
  BY <1>1 DEF Is, kubectlFails, Failing, Running
<1>2. CASE ListHinted(i)
  BY <1>0, <1>1, <1>2, KindsFour DEF ListHinted, Listing
<1>3. CASE Describe(i)
  <2>1. CASE class[cmd[i].name] = "absent" /\ Fails(i) /\ NoEffect
    BY <1>3, <2>1 DEF Describe, Failing, Running, Is
  <2> QED
    BY <1>0, <1>1, <1>3, <2>1, KindsFour DEF Describe, Describing
<1>4. CASE patchAnnotationRemove(i)
  <2>1. ASSUME NEW c \in cmd[i].todo, class[c] = "hinted",
               class' = [class EXCEPT ![c] = "plain"],
               cmd' = [Noticed(i, FALSE) EXCEPT ![i].todo = @ \ {c}],
               UNCHANGED <<api, held, edits, started>>
        PROVE  Patching(i)
    <3>1. Noticed(i, FALSE) \in [Slots -> Slot] /\ Noticed(i, FALSE)[i] = cmd[i]
      BY NoticedSlots DEF Noticed
    <3>2. cmd'[i] = [cmd[i] EXCEPT !.todo = @ \ {c}]
      BY <2>1, <3>1
    <3> QED
      BY <1>4, <2>1, <3>2 DEF Patching, patchAnnotationRemove
  <2>2. CASE Fails(i) /\ NoEffect
    BY <1>4, <2>2 DEF patchAnnotationRemove, Failing, Running, Is
  <2>3. ASSUME cmd[i].todo = {},
               To(i, IF cmd[i].verb = "clear" THEN Ended(i, "ok")
                     ELSE [cmd[i] EXCEPT !.pc = "class"]), NoEffect
        PROVE  Patching(i)
    BY <1>0, <1>4, <2>3 DEF patchAnnotationRemove, Patching
  <2> QED
    BY <1>4, <2>1, <2>2, <2>3 DEF patchAnnotationRemove, kubectlFails
<1>5. CASE fetchGatewayClass(i)
  <2> DEFINE there == {c \in Ours : class[c] # "absent"}
             first == CHOOSE c \in there : \A d \in there : c <= d
             o     == IF there = {} THEN 0 ELSE first
             seen  == [cmd[i] EXCEPT !.pc = "gateway", !.class = o,
                         !.hinted = there # {} /\ class[first] = "hinted"]
  <2>1. there # {} => first \in there
    BY FirstIsThere
  <2>2. \/ api = "none" /\ To(i, Ended(i, "noapi")) /\ NoEffect
        \/ api # "none" /\ To(i, seen) /\ NoEffect
        \/ kubectlFails(i)
    BY <1>5 DEF fetchGatewayClass
  <2>3. Is(i, "class")
    BY <1>5 DEF fetchGatewayClass
  <2>4. CASE api # "none" /\ To(i, seen) /\ NoEffect
    <3>1. Goes(i, seen)
      BY <1>0, <2>4
    <3>2. /\ o \in {0} \cup Ours /\ (o = 0) = (\A p \in Ours : class[p] = "absent")
          /\ o # 0 => class[o] # "absent" /\ there # {} /\ o = first
          /\ o = 0 => there = {}
      <4>1. 0 \notin Ours
        BY GatewayAssumption
      <4> QED
        BY <2>1, <4>1
    <3>3. seen = [cmd[i] EXCEPT !.pc = "gateway", !.class = o,
                     !.hinted = o # 0 /\ class[o] = "hinted"]
      BY <3>2
    <3> HIDE DEF there, first, o, seen
    <3> QED
      BY <2>3, <2>4, <3>1, <3>2, <3>3 DEF Classing
  <2> HIDE DEF there, first, o, seen
  <2> QED
    BY <1>0, <1>1, <2>2, <2>3, <2>4, KindsFour DEF Classing
<1>6. ASSUME NEW k \in Kinds, NEW next,
             next = CASE k = "gateway" -> "httproute" [] k = "httproute" -> "grpcroute"
                      [] k = "grpcroute" -> "policy" [] OTHER -> "backend",
             Get(i, k, next)
      PROVE  Getting(i) \/ Failing(i)
  <2>1. CASE Fails(i) /\ NoEffect
    BY <1>6, <2>1 DEF Get, Failing, Running, Is, Kinds
  <2>2. CASE Served(k) /\ To(i, [cmd[i] EXCEPT !.pc = next, !.read[k] = held[k]]) /\ NoEffect
    BY <1>0, <1>6, <2>2 DEF Get, Getting
  <2>3. CASE ~Served(k) /\ k = "policy" /\ To(i, [cmd[i] EXCEPT !.pc = next]) /\ NoEffect
    BY <1>0, <1>6, <2>3 DEF Get, Getting
  <2> QED
    BY <1>6, <2>1, <2>2, <2>3 DEF Get, kubectlFails
<1>7. CASE fetchGateways(i) \/ fetchHTTPRoutes(i) \/ fetchGRPCRoutes(i)
             \/ fetchClientTrafficPolicies(i)
  BY <1>6, <1>7, KindsFour DEF fetchGateways, fetchHTTPRoutes, fetchGRPCRoutes,
                               fetchClientTrafficPolicies
<1>8. CASE fetchBackendTrafficPolicies(i)
  BY <1>0, <1>1, <1>8, KindsFour DEF fetchBackendTrafficPolicies, Proxying
<1>9. CASE pickEnvoyProxyPod(i) \/ startEnvoyAdminPortForward(i) \/ ServerInfo(i)
             \/ ConfigDump(i)
  BY <1>0, <1>9 DEF pickEnvoyProxyPod, startEnvoyAdminPortForward, ServerInfo, ConfigDump,
                    Proxying, Leaving, Is
<1>10. CASE Interrupt(i)
  BY <1>10 DEF Interrupt, Leaving, Failing
<1> QED
  BY <1>2, <1>3, <1>4, <1>5, <1>7, <1>8, <1>9, <1>10 DEF Own, Command, Clear, Fetch

\* The fields a command has for good, and those others write.
Kept(i) ==
    /\ cmd'[i].verb = cmd[i].verb /\ cmd'[i].name = cmd[i].name
    /\ cmd'[i].quiet = cmd[i].quiet /\ cmd'[i].reapplied = cmd[i].reapplied

\* The fields after each step of a command.
LEMMA AfterFailing ==
    ASSUME StateTypes, NEW i \in Slots, Failing(i)
    PROVE  /\ Kept(i)
           /\ cmd'[i].todo = cmd[i].todo /\ cmd'[i].class = cmd[i].class
           /\ cmd'[i].hinted = cmd[i].hinted /\ cmd'[i].read = cmd[i].read
           /\ cmd'[i].forward = cmd[i].forward
           /\ cmd'[i].pc = "done" /\ cmd'[i].result = "error" /\ cmd'[i].failed # {}
           /\ UNCHANGED <<api, class, held>>
<1>1. cmd'[i] = [Ended(i, "error") EXCEPT !.failed = @ \cup {cmd[i].pc}] /\ cmd[i] \in Slot
  BY ToHere, InSlot DEF Failing, Fails
<1> QED
  BY <1>1 DEF Failing, NoEffect, Kept, Ended, Slot

LEMMA AfterLeaving ==
    ASSUME StateTypes, NEW i \in Slots, Leaving(i)
    PROVE  /\ Kept(i)
           /\ cmd'[i].todo = cmd[i].todo /\ cmd'[i].class = cmd[i].class
           /\ cmd'[i].hinted = cmd[i].hinted /\ cmd'[i].read = cmd[i].read
           /\ cmd'[i].failed = cmd[i].failed
           /\ cmd'[i].pc = "done" /\ cmd'[i].result = "ok" /\ ~cmd'[i].forward
           /\ UNCHANGED <<api, class, held>>
<1>1. cmd'[i] = [Ended(i, "ok") EXCEPT !.forward = FALSE] /\ cmd[i] \in Slot
  BY ToHere, InSlot DEF Leaving, WithoutEnvoy
<1> QED
  BY <1>1 DEF Leaving, WithoutEnvoy, NoEffect, Kept, Ended, Slot

LEMMA AfterListing ==
    ASSUME StateTypes, NEW i \in Slots, Listing(i)
    PROVE  /\ Kept(i)
           /\ cmd'[i].result = cmd[i].result /\ cmd'[i].class = cmd[i].class
           /\ cmd'[i].hinted = cmd[i].hinted /\ cmd'[i].read = cmd[i].read
           /\ cmd'[i].forward = cmd[i].forward /\ cmd'[i].failed = cmd[i].failed
           /\ cmd[i].pc = "list" /\ cmd'[i].pc = "patch" /\ cmd'[i].todo = Hinted
           /\ UNCHANGED <<api, class, held>>
  BY InSlot DEF Kept, Slot, Listing, Is, Goes

LEMMA AfterDescribing ==
    ASSUME StateTypes, NEW i \in Slots, Describing(i)
    PROVE  /\ Kept(i)
           /\ cmd'[i].class = cmd[i].class /\ cmd'[i].hinted = cmd[i].hinted
           /\ cmd'[i].read = cmd[i].read /\ cmd'[i].forward = cmd[i].forward
           /\ cmd'[i].failed = cmd[i].failed
           /\ UNCHANGED <<api, class, held>>
           /\ cmd[i].pc = "describe"
           /\ \/ /\ cmd'[i].pc = "patch" /\ cmd'[i].todo = {cmd[i].name}
                 /\ cmd'[i].result = cmd[i].result
              \/ /\ cmd'[i].pc = "done" /\ cmd'[i].todo = cmd[i].todo /\ cmd'[i].result = "ok"
                 /\ class[cmd[i].name] = "plain"
  BY InSlot DEF Kept, Slot, Describing, Is, Goes, Ended

LEMMA AfterPatching ==
    ASSUME StateTypes, NEW i \in Slots, Patching(i)
    PROVE  /\ Kept(i)
           /\ cmd'[i].class = cmd[i].class /\ cmd'[i].hinted = cmd[i].hinted
           /\ cmd'[i].read = cmd[i].read /\ cmd'[i].forward = cmd[i].forward
           /\ cmd'[i].failed = cmd[i].failed
           /\ UNCHANGED <<api, held>> /\ cmd[i].pc = "patch"
           /\ \/ /\ cmd'[i].pc = "patch" /\ cmd'[i].result = cmd[i].result
                 /\ \E c \in cmd[i].todo : /\ cmd'[i].todo = cmd[i].todo \ {c}
                                          /\ class' = [class EXCEPT ![c] = "plain"]
              \/ /\ cmd[i].todo = {} /\ cmd'[i].todo = {} /\ class' = class
                 /\ IF cmd[i].verb = "clear" THEN cmd'[i].pc = "done" /\ cmd'[i].result = "ok"
                    ELSE cmd'[i].pc = "class" /\ cmd'[i].result = cmd[i].result
<1>1. cmd[i] \in Slot /\ cmd[i].pc = "patch"
  BY InSlot DEF Patching, Is
<1>2. ASSUME NEW c \in cmd[i].todo, class' = [class EXCEPT ![c] = "plain"],
             cmd'[i] = [cmd[i] EXCEPT !.todo = @ \ {c}], UNCHANGED <<api, held>>
      PROVE  /\ Kept(i) /\ cmd'[i].pc = "patch" /\ cmd'[i].result = cmd[i].result
             /\ cmd'[i].todo = cmd[i].todo \ {c}
             /\ cmd'[i].class = cmd[i].class /\ cmd'[i].hinted = cmd[i].hinted
             /\ cmd'[i].read = cmd[i].read /\ cmd'[i].forward = cmd[i].forward
             /\ cmd'[i].failed = cmd[i].failed
  BY <1>1, <1>2 DEF Kept, Slot
<1>3. CASE cmd[i].todo = {} /\ Goes(i, IF cmd[i].verb = "clear" THEN Ended(i, "ok")
                                       ELSE [cmd[i] EXCEPT !.pc = "class"])
  <2>1. CASE cmd[i].verb = "clear"
    <3>1. Goes(i, Ended(i, "ok"))
      BY <1>3, <2>1
    <3>2. /\ Kept(i) /\ cmd'[i].pc = "done" /\ cmd'[i].result = "ok"
          /\ cmd'[i].todo = cmd[i].todo
          /\ cmd'[i].class = cmd[i].class /\ cmd'[i].hinted = cmd[i].hinted
          /\ cmd'[i].read = cmd[i].read /\ cmd'[i].forward = cmd[i].forward
          /\ cmd'[i].failed = cmd[i].failed /\ UNCHANGED <<api, class, held>>
      BY <1>1, <3>1 DEF Kept, Slot, Goes, Ended
    <3> QED
      BY <1>1, <1>3, <2>1, <3>2
  <2>2. CASE cmd[i].verb # "clear"
    <3>1. Goes(i, [cmd[i] EXCEPT !.pc = "class"])
      BY <1>3, <2>2
    <3>2. /\ Kept(i) /\ cmd'[i].pc = "class" /\ cmd'[i].result = cmd[i].result
          /\ cmd'[i].todo = cmd[i].todo
          /\ cmd'[i].class = cmd[i].class /\ cmd'[i].hinted = cmd[i].hinted
          /\ cmd'[i].read = cmd[i].read /\ cmd'[i].forward = cmd[i].forward
          /\ cmd'[i].failed = cmd[i].failed /\ UNCHANGED <<api, class, held>>
      BY <1>1, <3>1 DEF Kept, Slot, Goes
    <3> QED
      BY <1>1, <1>3, <2>2, <3>2
  <2> QED
    BY <2>1, <2>2
<1> QED
  BY <1>1, <1>2, <1>3 DEF Patching

LEMMA AfterClassing ==
    ASSUME StateTypes, NEW i \in Slots, Classing(i)
    PROVE  /\ Kept(i)
           /\ cmd'[i].todo = cmd[i].todo /\ cmd'[i].read = cmd[i].read
           /\ cmd'[i].forward = cmd[i].forward /\ cmd'[i].failed = cmd[i].failed
           /\ UNCHANGED <<api, class, held>> /\ cmd[i].pc = "class"
           /\ \/ /\ api = "none" /\ cmd'[i].pc = "done" /\ cmd'[i].result = "noapi"
                 /\ cmd'[i].class = cmd[i].class /\ cmd'[i].hinted = cmd[i].hinted
              \/ /\ api # "none" /\ cmd'[i].pc = "gateway" /\ cmd'[i].result = cmd[i].result
                 /\ cmd'[i].class \in {0} \cup Ours
                 /\ (cmd'[i].class = 0) = (\A p \in Ours : class[p] = "absent")
                 /\ cmd'[i].class # 0 => class[cmd'[i].class] # "absent"
                 /\ cmd'[i].hinted = (cmd'[i].class # 0 /\ class[cmd'[i].class] = "hinted")
<1>1. cmd[i] \in Slot /\ cmd[i].pc = "class" /\ UNCHANGED <<api, class, held>>
  BY InSlot DEF Classing, Is, Goes
<1>2. CASE api = "none" /\ Goes(i, Ended(i, "noapi"))
  BY <1>1, <1>2 DEF Kept, Slot, Goes, Ended
<1>3. ASSUME api # "none", NEW o \in {0} \cup Ours,
             (o = 0) = (\A p \in Ours : class[p] = "absent"), o # 0 => class[o] # "absent",
             Goes(i, [cmd[i] EXCEPT !.pc = "gateway", !.class = o,
                         !.hinted = o # 0 /\ class[o] = "hinted"])
      PROVE  /\ Kept(i) /\ cmd'[i].pc = "gateway" /\ cmd'[i].result = cmd[i].result
             /\ cmd'[i].class = o /\ cmd'[i].hinted = (o # 0 /\ class[o] = "hinted")
             /\ cmd'[i].todo = cmd[i].todo /\ cmd'[i].read = cmd[i].read
             /\ cmd'[i].forward = cmd[i].forward /\ cmd'[i].failed = cmd[i].failed
  <2> DEFINE h == o # 0 /\ class[o] = "hinted"
  <2>1. cmd'[i] = [cmd[i] EXCEPT !.pc = "gateway", !.class = o, !.hinted = h]
    BY <1>3 DEF Goes
  <2> HIDE DEF h
  <2>2. cmd'[i].hinted = h /\ cmd'[i].class = o /\ cmd'[i].pc = "gateway"
    BY <1>1, <2>1 DEF Slot
  <2>3. /\ Kept(i) /\ cmd'[i].result = cmd[i].result
        /\ cmd'[i].todo = cmd[i].todo /\ cmd'[i].read = cmd[i].read
        /\ cmd'[i].forward = cmd[i].forward /\ cmd'[i].failed = cmd[i].failed
    BY <1>1, <2>1 DEF Slot, Kept
  <2> QED
    BY <2>2, <2>3 DEF h
<1> QED
  BY <1>1, <1>2, <1>3 DEF Classing

LEMMA AfterGetting ==
    ASSUME StateTypes, NEW i \in Slots, Getting(i)
    PROVE  /\ Kept(i)
           /\ cmd'[i].result = cmd[i].result /\ cmd'[i].todo = cmd[i].todo
           /\ cmd'[i].class = cmd[i].class /\ cmd'[i].hinted = cmd[i].hinted
           /\ cmd'[i].forward = cmd[i].forward /\ cmd'[i].failed = cmd[i].failed
           /\ UNCHANGED <<api, class, held>>
           /\ \E k \in Kinds :
                /\ cmd[i].pc = k
                /\ cmd'[i].pc = CASE k = "gateway" -> "httproute" [] k = "httproute" -> "grpcroute"
                                  [] k = "grpcroute" -> "policy" [] OTHER -> "backend"
                /\ \A l \in Kinds \ {k} : cmd'[i].read[l] = cmd[i].read[l]
                /\ IF Served(k) THEN cmd'[i].read[k] = held[k]
                   ELSE k = "policy" /\ cmd'[i].read[k] = cmd[i].read[k]
<1>1. PICK k \in Kinds : cmd[i].pc = k /\
           LET next == CASE k = "gateway" -> "httproute" [] k = "httproute" -> "grpcroute"
                         [] k = "grpcroute" -> "policy" [] OTHER -> "backend"
           IN IF Served(k) THEN Goes(i, [cmd[i] EXCEPT !.pc = next, !.read[k] = held[k]])
              ELSE k = "policy" /\ Goes(i, [cmd[i] EXCEPT !.pc = next])
  BY DEF Getting, Is
<1> DEFINE next == CASE k = "gateway" -> "httproute" [] k = "httproute" -> "grpcroute"
                     [] k = "grpcroute" -> "policy" [] OTHER -> "backend"
<1>2. IF Served(k) THEN Goes(i, [cmd[i] EXCEPT !.pc = next, !.read[k] = held[k]])
      ELSE k = "policy" /\ Goes(i, [cmd[i] EXCEPT !.pc = next])
  BY <1>1
<1>3. cmd[i] \in Slot
  BY InSlot
<1> HIDE DEF next
<1>4. CASE Served(k)
  <2>1. cmd'[i] = [cmd[i] EXCEPT !.pc = next, !.read[k] = held[k]] /\ UNCHANGED <<api, class, held>>
    BY <1>2, <1>4 DEF Goes
  <2>2. /\ Kept(i) /\ cmd'[i].pc = next /\ cmd'[i].read = [cmd[i].read EXCEPT ![k] = held[k]]
        /\ cmd'[i].result = cmd[i].result /\ cmd'[i].todo = cmd[i].todo
        /\ cmd'[i].class = cmd[i].class /\ cmd'[i].hinted = cmd[i].hinted
        /\ cmd'[i].forward = cmd[i].forward /\ cmd'[i].failed = cmd[i].failed
    BY <1>3, <2>1 DEF Slot, Kept
  <2>3. cmd[i].read \in [Kinds -> Nat]
    BY <1>3 DEF Slot
  <2> QED
    BY <1>1, <1>4, <2>1, <2>2, <2>3 DEF next
<1>5. CASE ~Served(k)
  <2>1. k = "policy" /\ cmd'[i] = [cmd[i] EXCEPT !.pc = next] /\ UNCHANGED <<api, class, held>>
    BY <1>2, <1>5 DEF Goes
  <2>2. /\ Kept(i) /\ cmd'[i].pc = next /\ cmd'[i].read = cmd[i].read
        /\ cmd'[i].result = cmd[i].result /\ cmd'[i].todo = cmd[i].todo
        /\ cmd'[i].class = cmd[i].class /\ cmd'[i].hinted = cmd[i].hinted
        /\ cmd'[i].forward = cmd[i].forward /\ cmd'[i].failed = cmd[i].failed
    BY <1>3, <2>1 DEF Slot, Kept
  <2> QED
    BY <1>1, <1>5, <2>1, <2>2 DEF next
<1> QED
  BY <1>4, <1>5

LEMMA AfterProxying ==
    ASSUME StateTypes, NEW i \in Slots, Proxying(i)
    PROVE  /\ Kept(i)
           /\ cmd'[i].todo = cmd[i].todo /\ cmd'[i].class = cmd[i].class
           /\ cmd'[i].hinted = cmd[i].hinted /\ cmd'[i].read = cmd[i].read
           /\ cmd'[i].failed = cmd[i].failed
           /\ UNCHANGED <<api, class, held>>
           /\ cmd[i].pc \in {"backend", "pods", "forward", "info", "dump"}
           /\ \/ /\ cmd'[i].pc = "pods" /\ cmd[i].pc = "backend"
                 /\ cmd'[i].result = cmd[i].result /\ cmd'[i].forward = cmd[i].forward
              \/ /\ cmd'[i].pc \in {"forward", "info", "dump"} /\ cmd'[i].result = cmd[i].result
              \/ cmd'[i].pc = "done" /\ cmd'[i].result = "ok" /\ ~cmd'[i].forward
  BY InSlot DEF Kept, Slot, Proxying, Is, Goes, Ended

LEMMA AfterOthers ==
    ASSUME StateTypes, NEW i \in Slots, Disturbed(i)
    PROVE  /\ cmd'[i].verb = cmd[i].verb /\ cmd'[i].name = cmd[i].name
           /\ ~cmd'[i].quiet /\ (cmd[i].reapplied => cmd'[i].reapplied)
           /\ ~cmd'[i].reapplied => Hinted' \subseteq Hinted
           /\ cmd'[i].pc = cmd[i].pc /\ cmd'[i].result = cmd[i].result
           /\ cmd'[i].todo = cmd[i].todo /\ cmd'[i].class = cmd[i].class
           /\ cmd'[i].hinted = cmd[i].hinted /\ cmd'[i].read = cmd[i].read
           /\ cmd'[i].forward = cmd[i].forward /\ cmd'[i].failed = cmd[i].failed
<1>1. PICK hint \in BOOLEAN :
         /\ cmd'[i] = [cmd[i] EXCEPT !.quiet = FALSE, !.reapplied = @ \/ hint]
         /\ ~hint => Hinted' \subseteq Hinted
  BY DEF Disturbed
<1>2. cmd[i] \in Slot
  BY InSlot
<1>3. cmd'[i].reapplied = (cmd[i].reapplied \/ hint)
  BY <1>1, <1>2 DEF Slot
<1>4. ~cmd'[i].quiet
  BY <1>1, <1>2 DEF Slot
<1>5. /\ cmd'[i].verb = cmd[i].verb /\ cmd'[i].name = cmd[i].name
      /\ cmd'[i].pc = cmd[i].pc /\ cmd'[i].result = cmd[i].result
      /\ cmd'[i].todo = cmd[i].todo /\ cmd'[i].class = cmd[i].class
      /\ cmd'[i].hinted = cmd[i].hinted /\ cmd'[i].read = cmd[i].read
      /\ cmd'[i].forward = cmd[i].forward /\ cmd'[i].failed = cmd[i].failed
  BY <1>1, <1>2 DEF Slot
<1> QED
  BY <1>1, <1>3, <1>4, <1>5

\* A command goes from call to call, and holds a forward only in between.
LEMMA FlowStep ==
    ASSUME StateTypes, NEW i \in Slots, Flow(i), [Next]_vars
    PROVE  Flow(i)'
<1> USE DEF Kept, Flow
<1>0. cmd[i] \in Slot
  BY InSlot
<1>1. CASE Begin(i)
  BY <1>1, AfterBegin
<1>2. CASE Failing(i)
  BY <1>2, AfterFailing DEF Failing, Running
<1>3. CASE Leaving(i)
  BY <1>3, AfterLeaving DEF Leaving
<1>4. CASE Listing(i)
  BY <1>4, AfterListing
<1>5. CASE Describing(i)
  BY <1>5, AfterDescribing
<1>6. CASE Patching(i)
  BY <1>6, AfterPatching
<1>7. CASE Classing(i)
  <2>1. /\ Kept(i) /\ cmd[i].pc = "class" /\ cmd[i].result = "none"
        /\ cmd'[i].todo = cmd[i].todo /\ cmd'[i].read = cmd[i].read
        /\ cmd'[i].forward = cmd[i].forward /\ cmd'[i].failed = cmd[i].failed
    BY <1>7, AfterClassing
  <2>2. \/ /\ cmd'[i].pc = "done" /\ cmd'[i].result = "noapi"
           /\ cmd'[i].hinted = cmd[i].hinted
        \/ /\ cmd'[i].pc = "gateway" /\ cmd'[i].result = "none"
           /\ cmd'[i].hinted => cmd'[i].class \in Ours
    BY <1>7, <2>1, AfterClassing
  <2> QED
    BY <2>1, <2>2
<1>8. CASE Getting(i)
  <2>1. \A k \in Kinds : held[k] \in DOMAIN Tables[k]
    BY DEF StateTypes
  <2> QED
    BY <1>8, <2>1, AfterGetting DEF Served, Kinds
<1>9. CASE Proxying(i)
  BY <1>9, AfterProxying
<1>10. CASE Untouched(i)
  BY <1>10 DEF Untouched
<1>11. CASE Disturbed(i)
  BY <1>11, AfterOthers
<1> QED
  BY <1>1, <1>2, <1>3, <1>4, <1>5, <1>6, <1>7, <1>8, <1>9, <1>10, <1>11, OwnSteps, Bystanders

\* A bystander is quiet no more, and a read adds what stands.
LEMMA SeenStep ==
    ASSUME StateTypes, NEW i \in Slots, Flow(i), SeenTrue(i), [Next]_vars
    PROVE  SeenTrue(i)'
<1> USE DEF Kept, Flow, SeenTrue, Unread, Stands, Kinds
<1>0. cmd[i] \in Slot
  BY InSlot
<1>1. CASE Begin(i)
  BY <1>1, AfterBegin
<1>2. CASE Failing(i)
  BY <1>2, AfterFailing DEF Failing, Running
<1>3. CASE Leaving(i)
  <2>1. Unread("done") = {} /\ Unread(cmd[i].pc) = {}
    BY <1>3 DEF Leaving, Unread
  <2>2. /\ cmd'[i].quiet = cmd[i].quiet /\ cmd'[i].verb = cmd[i].verb
        /\ cmd'[i].class = cmd[i].class /\ cmd'[i].hinted = cmd[i].hinted
        /\ cmd'[i].read = cmd[i].read /\ cmd[i].result = "none"
        /\ cmd'[i].result = "ok" /\ cmd'[i].pc = "done" /\ UNCHANGED <<api, class, held>>
        /\ cmd[i].pc \notin {"idle", "list", "patch", "class"}
    BY <1>3, AfterLeaving DEF Leaving
  <2> HIDE DEF Unread
  <2> QED
    BY <2>1, <2>2
<1>4. CASE Listing(i)
  BY <1>4, AfterListing
<1>5. CASE Describing(i)
  BY <1>5, AfterDescribing
<1>6. CASE Patching(i)
  <2>1. Unread("patch") = Kinds /\ Unread("class") = Kinds
    BY DEF Unread
  <2>2. cmd[i].pc = "patch" /\ UNCHANGED <<api, held>>
    BY <1>6, AfterPatching
  <2>3. /\ cmd'[i].quiet = cmd[i].quiet /\ cmd'[i].verb = cmd[i].verb
        /\ cmd'[i].read = cmd[i].read /\ cmd[i].result = "none"
        /\ cmd[i].verb # "clear" => cmd'[i].result = "none" /\ cmd'[i].pc \in {"patch", "class"}
    BY <1>6, AfterPatching
  <2> HIDE DEF Unread
  <2> QED
    BY <2>1, <2>2, <2>3
<1>7. CASE Classing(i)
  <2>1. Unread("class") = Kinds /\ Unread("gateway") = Kinds
    BY DEF Unread
  <2>2. cmd[i].pc = "class" /\ cmd[i].result = "none" /\ UNCHANGED <<api, class, held>>
    BY <1>7, AfterClassing
  <2> HIDE DEF Unread
  <2>3. CASE api = "none" /\ cmd'[i].pc = "done" /\ cmd'[i].result = "noapi"
    BY <2>2, <2>3
  <2>4. CASE api # "none" /\ cmd'[i].pc = "gateway" /\ cmd'[i].result = cmd[i].result
    <3>1. /\ cmd'[i].quiet = cmd[i].quiet /\ cmd'[i].verb = cmd[i].verb
          /\ cmd'[i].read = cmd[i].read
          /\ (cmd'[i].class = 0) = (\A p \in Ours : class[p] = "absent")
          /\ cmd'[i].class # 0 => class[cmd'[i].class] # "absent"
          /\ cmd'[i].class # 0 => cmd'[i].hinted = (class[cmd'[i].class] = "hinted")
      BY <1>7, <2>4, AfterClassing
    <3> QED
      BY <2>1, <2>2, <2>4, <3>1
  <2> QED
    BY <1>7, <2>3, <2>4, AfterClassing
<1>8. CASE Getting(i)
  <2>1. PICK k \in Kinds :
           /\ cmd[i].pc = k
           /\ cmd'[i].pc = CASE k = "gateway" -> "httproute" [] k = "httproute" -> "grpcroute"
                             [] k = "grpcroute" -> "policy" [] OTHER -> "backend"
           /\ \A l \in Kinds \ {k} : cmd'[i].read[l] = cmd[i].read[l]
           /\ IF Served(k) THEN cmd'[i].read[k] = held[k]
              ELSE k = "policy" /\ cmd'[i].read[k] = cmd[i].read[k]
    BY <1>8, AfterGetting
  <2>2. Unread(cmd'[i].pc) = Unread(k) \ {k} /\ k \in Unread(k)
    BY <2>1 DEF Unread, Kinds
  <2>3. /\ cmd'[i].quiet = cmd[i].quiet /\ cmd'[i].verb = cmd[i].verb
        /\ cmd'[i].class = cmd[i].class /\ cmd'[i].hinted = cmd[i].hinted
        /\ cmd[i].result = "none" /\ cmd'[i].result = "none"
        /\ UNCHANGED <<api, class, held>>
    BY <1>8, <2>1, AfterGetting DEF Kinds
  <2>4. k \notin {"idle", "list", "patch", "class"}
    BY DEF Kinds
  <2> SUFFICES ASSUME cmd[i].quiet, cmd[i].verb # "clear" PROVE SeenTrue(i)'
    BY <2>3
  <2>5. /\ \A l \in Kinds : cmd[i].read[l] = IF l \in Unread(k) THEN 0 ELSE Stands(l)
        /\ api # "none"
        /\ (cmd[i].class = 0) = (\A o \in Ours : class[o] = "absent")
        /\ cmd[i].class # 0 => /\ class[cmd[i].class] # "absent"
                               /\ cmd[i].hinted = (class[cmd[i].class] = "hinted")
    BY <2>1, <2>3, <2>4
  <2>6. cmd'[i].read[k] = Stands(k)
    BY <2>1, <2>2, <2>5 DEF Served, Stands
  <2>7. \A l \in Kinds : cmd'[i].read[l] = IF l \in Unread(cmd'[i].pc) THEN 0 ELSE Stands(l)
    BY <2>1, <2>2, <2>5, <2>6
  <2>8. \A l \in Kinds : Stands(l)' = Stands(l)
    BY <2>3 DEF Stands
  <2> QED
    BY <2>3, <2>5, <2>7, <2>8
<1>9. CASE Proxying(i)
  <2>1. Unread(cmd[i].pc) = {} /\ Unread(cmd'[i].pc) = {}
    BY <1>9, AfterProxying DEF Unread
  <2>2. /\ cmd'[i].quiet = cmd[i].quiet /\ cmd'[i].verb = cmd[i].verb
        /\ cmd'[i].class = cmd[i].class /\ cmd'[i].hinted = cmd[i].hinted
        /\ cmd'[i].read = cmd[i].read /\ cmd[i].result = "none"
        /\ cmd'[i].result \in {"none", "ok"} /\ UNCHANGED <<api, class, held>>
        /\ cmd[i].pc \notin {"idle", "list", "patch", "class"}
    BY <1>9, AfterProxying
  <2> HIDE DEF Unread
  <2> QED
    BY <2>1, <2>2
<1>10. CASE Untouched(i)
  <2>1. cmd'[i] = cmd[i] /\ UNCHANGED <<api, class, held>>
    BY <1>10 DEF Untouched
  <2> HIDE DEF Unread
  <2> QED
    BY <2>1
<1>11. CASE Disturbed(i)
  BY <1>11, AfterOthers
<1> QED
  BY <1>1, <1>2, <1>3, <1>4, <1>5, <1>6, <1>7, <1>8, <1>9, <1>10, <1>11, OwnSteps, Bystanders

\* Only platform install brings a hint back.
LEMMA PreparedStep ==
    ASSUME StateTypes, NEW i \in Slots, Flow(i), HintsPrepared(i), [Next]_vars
    PROVE  HintsPrepared(i)'
<1> USE DEF Kept, Flow, HintsPrepared, Hinted
<1>0. cmd[i] \in Slot
  BY InSlot
<1>1. CASE Begin(i)
  BY <1>1, AfterBegin
<1>2. CASE Failing(i)
  BY <1>2, AfterFailing DEF Failing, Running
<1>3. CASE Leaving(i)
  BY <1>3, AfterLeaving DEF Leaving
<1>4. CASE Listing(i)
  BY <1>4, AfterListing
<1>5. CASE Describing(i)
  BY <1>5, AfterDescribing
<1>6. CASE Patching(i)
  <2>1. class \in [Classes -> {"absent", "plain", "hinted"}]
    BY DEF StateTypes
  <2>2. cmd[i].pc = "patch" /\ Kept(i) /\ cmd'[i].hinted = cmd[i].hinted
    BY <1>6, AfterPatching
  <2>3. cmd[i].hinted => FALSE
    BY <2>2
  <2>4. ASSUME NEW c \in cmd[i].todo, cmd'[i].todo = cmd[i].todo \ {c},
               class' = [class EXCEPT ![c] = "plain"], Hinted \subseteq cmd[i].todo
        PROVE  Hinted' \subseteq cmd'[i].todo
    BY <2>1, <2>4
  <2> QED
    BY <1>6, <2>2, <2>3, <2>4, AfterPatching
<1>7. CASE Classing(i)
  <2>1. cmd[i].pc = "class" /\ cmd[i].result = "none" /\ Kept(i) /\ class' = class
    BY <1>7, AfterClassing
  <2>2. cmd'[i].result \in {"none", "ok"} =>
           cmd'[i].class \in {0} \cup Ours
             /\ cmd'[i].hinted = (cmd'[i].class # 0 /\ class[cmd'[i].class] = "hinted")
    BY <1>7, AfterClassing
  <2>3. Ours \subseteq Classes
    BY GatewayAssumption
  <2> QED
    BY <2>1, <2>2, <2>3
<1>8. CASE Getting(i)
  BY <1>8, AfterGetting DEF Served, Kinds
<1>9. CASE Proxying(i)
  BY <1>9, AfterProxying
<1>10. CASE Untouched(i)
  <2>1. cmd'[i] = cmd[i] /\ class' = class
    BY <1>10 DEF Untouched
  <2> QED
    BY <2>1
<1>11. CASE Disturbed(i)
  BY <1>11, AfterOthers
<1> QED
  BY <1>1, <1>2, <1>3, <1>4, <1>5, <1>6, <1>7, <1>8, <1>9, <1>10, <1>11, OwnSteps, Bystanders

\* As long as it is alone, clear-dns-hint-ip has its class as it left it.
LEMMA ClearedStep ==
    ASSUME StateTypes, NEW i \in Slots, Flow(i), HintCleared(i), [Next]_vars
    PROVE  HintCleared(i)'
<1> USE DEF Kept, Flow, HintCleared
<1>0. cmd[i] \in Slot
  BY InSlot
<1>1. CASE Begin(i)
  BY <1>1, AfterBegin
<1>2. CASE Failing(i)
  BY <1>2, AfterFailing DEF Failing, Running
<1>3. CASE Leaving(i)
  BY <1>3, AfterLeaving DEF Leaving
<1>4. CASE Listing(i)
  BY <1>4, AfterListing
<1>5. CASE Describing(i)
  BY <1>5, AfterDescribing
<1>6. CASE Patching(i)
  <2>1. class \in [Classes -> {"absent", "plain", "hinted"}]
    BY DEF StateTypes
  <2>2. cmd[i].pc = "patch" /\ Kept(i)
    BY <1>6, AfterPatching
  <2>3. ASSUME NEW c \in cmd[i].todo, class' = [class EXCEPT ![c] = "plain"],
               cmd[i].todo = {cmd[i].name}, cmd[i].name \in Classes
        PROVE  class'[cmd[i].name] = "plain" /\ cmd[i].todo \ {c} = {}
    BY <2>1, <2>3
  <2> QED
    BY <1>6, <2>2, <2>3, AfterPatching
<1>7. CASE Classing(i)
  BY <1>7, AfterClassing
<1>8. CASE Getting(i)
  BY <1>8, AfterGetting DEF Served, Kinds
<1>9. CASE Proxying(i)
  BY <1>9, AfterProxying
<1>10. CASE Untouched(i)
  <2>1. cmd'[i] = cmd[i] /\ class' = class
    BY <1>10 DEF Untouched
  <2> QED
    BY <2>1
<1>11. CASE Disturbed(i)
  BY <1>11, AfterOthers
<1> QED
  BY <1>1, <1>2, <1>3, <1>4, <1>5, <1>6, <1>7, <1>8, <1>9, <1>10, <1>11, OwnSteps, Bystanders

--------------------------------------------------------------------------------
(* The invariant *)

LEMMA CommandsBegin == Init => CommandInv
<1> SUFFICES ASSUME Init PROVE CommandInv
  OBVIOUS
<1>1. StateTypes
  <2>1. held \in [Kinds -> Nat] /\ \A k \in Kinds : held[k] \in DOMAIN Tables[k]
    BY TablesAssumption DEF Init, Kinds
  <2>2. api \in {"none", "gateway", "full"} /\ class \in [Classes -> {"absent", "plain", "hinted"}]
    <3>1. PICK p \in {<<"none", "absent">>, <<"gateway", "plain">>, <<"full", "hinted">>} :
             api = p[1] /\ class = [c \in Classes |-> p[2]]
      BY DEF Init
    <3> QED
      BY <3>1
  <2> QED
    BY <2>1, <2>2, NoCommandSlot DEF Init, StateTypes
<1>2. ASSUME NEW i \in Slots
      PROVE  Flow(i) /\ SeenTrue(i) /\ HintsPrepared(i) /\ HintCleared(i)
  <2>1. cmd[i] = NoCommand
    BY DEF Init
  <2>2. \A k \in Kinds : Nothing[k] = 0 /\ k \in Unread("idle")
    BY DEF Nothing, Unread
  <2>3. Flow(i)
    BY <2>1, <2>2 DEF Flow, NoCommand
  <2>4. SeenTrue(i)
    BY <2>1, <2>2 DEF SeenTrue, NoCommand
  <2> QED
    BY <2>1, <2>3, <2>4 DEF HintsPrepared, HintCleared, NoCommand
<1> QED
  BY <1>1, <1>2 DEF CommandInv

\* Every command knows what it has seen, in every state.
THEOREM CommandsAreAccounted == Spec => []CommandInv
<1>1. CommandInv /\ [Next]_vars => CommandInv'
  <2> SUFFICES ASSUME CommandInv, [Next]_vars PROVE CommandInv'
    OBVIOUS
  <2>1. StateTypes'
    BY TypesStep DEF CommandInv
  <2>2. ASSUME NEW i \in Slots
        PROVE  Flow(i)' /\ SeenTrue(i)' /\ HintsPrepared(i)' /\ HintCleared(i)'
    BY <2>2, FlowStep, SeenStep, PreparedStep, ClearedStep DEF CommandInv
  <2> QED
    BY <2>1, <2>2 DEF CommandInv
<1> QED
  BY <1>1, CommandsBegin, PTL DEF Spec

--------------------------------------------------------------------------------
(* Theorems *)

\* A command holds what its next call needs and nothing of a later one.
THEOREM TypeCorrect == Spec => []TypeOK
<1>1. CommandInv => TypeOK
  <2> SUFFICES ASSUME CommandInv PROVE TypeOK
    OBVIOUS
  <2>1. ASSUME NEW i \in Slots
        PROVE  LET c == cmd[i]
               IN /\ c.verb = "none" \/ c.verb \in VerbsOf[i]
                  /\ c.result \in {"none", "ok", "noapi", "error"}
                  /\ (c.result = "none") = (c.pc # "done")
                  /\ c.todo \subseteq Classes
                  /\ c.todo # {} => c.pc = "patch" \/ c.result = "error"
                  /\ \A k \in Kinds : c.read[k] = 0 \/ c.read[k] \in DOMAIN Tables[k]
                  /\ c.hinted => c.class \in Ours
    <3>1. cmd[i] \in Slot /\ Flow(i)
      BY InSlot DEF CommandInv
    <3> QED
      BY <3>1 DEF Slot, Flow
  <2> QED
    BY <2>1 DEF CommandInv, StateTypes, TypeOK
<1> QED
  BY <1>1, CommandsAreAccounted, PTL

\* No port-forward outlives its command (envoy.go).
THEOREM ForwardEndsInTime == Spec => []NoForwardLeft
<1>1. CommandInv => NoForwardLeft
  BY DEF CommandInv, Flow, NoForwardLeft
<1> QED
  BY <1>1, CommandsAreAccounted, PTL

\* After prepare-export's live phase there is no hint, and after
\* clear-dns-hint-ip the named class has none (state.go).
THEOREM HintsAreGone == Spec => []HintsGone
<1>1. CommandInv => HintsGone
  <2> SUFFICES ASSUME CommandInv, NEW i \in Slots, cmd[i].result = "ok", ~cmd[i].reapplied
               PROVE  /\ cmd[i].verb = "prepare" => Hinted = {} /\ ~cmd[i].hinted
                      /\ cmd[i].verb = "clear" /\ cmd[i].quiet => class[cmd[i].name] = "plain"
    BY DEF HintsGone
  <2>1. Flow(i) /\ HintsPrepared(i) /\ HintCleared(i)
    BY DEF CommandInv
  <2>2. cmd[i].pc = "done"
    BY <2>1 DEF Flow
  <2> QED
    BY <2>1, <2>2 DEF HintsPrepared, HintCleared
<1> QED
  BY <1>1, CommandsAreAccounted, PTL

\* A snapshot of a cluster that nobody changed meanwhile is that cluster
\* (fetch.go, isNoResourceType; state.go).
THEOREM SnapshotIsTrue == Spec => []SnapshotTrue
<1>1. CommandInv => SnapshotTrue
  <2> SUFFICES ASSUME CommandInv, NEW i \in Slots, cmd[i].quiet, cmd[i].verb # "clear"
               PROVE  /\ cmd[i].result = "noapi" => api = "none"
                      /\ cmd[i].result = "error" => cmd[i].failed # {}
                      /\ cmd[i].result = "ok" =>
                           /\ api # "none" /\ cmd[i].failed = {}
                           /\ cmd[i].read = [held EXCEPT !.policy = IF api = "full" THEN @ ELSE 0]
                           /\ (cmd[i].class = 0) <=> \A c \in Ours : class[c] = "absent"
                           /\ cmd[i].class # 0 =>
                                /\ class[cmd[i].class] # "absent"
                                /\ cmd[i].hinted = (class[cmd[i].class] = "hinted")
    BY DEF SnapshotTrue
  <2>1. Flow(i) /\ SeenTrue(i) /\ cmd[i] \in Slot /\ held \in [Kinds -> Nat]
    BY InSlot DEF CommandInv, StateTypes
  <2>2. cmd[i].result = "noapi" => api = "none"
    BY <2>1 DEF SeenTrue
  <2>3. ASSUME cmd[i].result = "ok"
        PROVE  /\ api # "none" /\ cmd[i].failed = {} /\ \A k \in Kinds : cmd[i].read[k] = Stands(k)
               /\ (cmd[i].class = 0) <=> \A c \in Ours : class[c] = "absent"
               /\ cmd[i].class # 0 => /\ class[cmd[i].class] # "absent"
                                      /\ cmd[i].hinted = (class[cmd[i].class] = "hinted")
    <3>1. cmd[i].pc = "done" /\ cmd[i].failed = {} /\ Unread("done") = {}
      BY <2>1, <2>3 DEF Flow, Unread
    <3> QED
      BY <2>1, <2>3, <3>1 DEF SeenTrue
  <2>4. ASSUME \A k \in Kinds : cmd[i].read[k] = Stands(k)
        PROVE  cmd[i].read = [held EXCEPT !.policy = IF api = "full" THEN @ ELSE 0]
    <3>1. cmd[i].read \in [Kinds -> Nat]
      BY <2>1 DEF Slot
    <3>2. [held EXCEPT !.policy = IF api = "full" THEN @ ELSE 0] \in [Kinds -> Nat]
      BY <2>1
    <3>3. \A k \in Kinds :
             [held EXCEPT !.policy = IF api = "full" THEN @ ELSE 0][k] = cmd[i].read[k]
      BY <2>1, <2>4 DEF Stands
    <3> QED
      BY <3>1, <3>2, <3>3
  <2> QED
    BY <2>1, <2>2, <2>3, <2>4 DEF Flow
<1> QED
  BY <1>1, CommandsAreAccounted, PTL

--------------------------------------------------------------------------------
(* What a snapshot's summary says *)

\* A strict total order of a set, as a set of pairs.
Orders(R, S) ==
    /\ \A x \in S : <<x, x>> \notin R
    /\ \A x, y, z \in S : <<x, y>> \in R /\ <<y, z>> \in R => <<x, z>> \in R
    /\ \A x, y \in S : x # y => <<x, y>> \in R \/ <<y, x>> \in R

Rank(R, S, x) == Cardinality({y \in S : <<y, x>> \in R})

\* How many members come before one tells its place.
LEMMA RanksAre ==
  ASSUME NEW S, IsFiniteSet(S), NEW R, Orders(R, S)
  PROVE  /\ Cardinality(S) \in Nat
         /\ \A x \in S : Rank(R, S, x) \in 0..(Cardinality(S) - 1)
         /\ \A x, y \in S : <<x, y>> \in R => Rank(R, S, x) < Rank(R, S, y)
<1> DEFINE Below(x) == {y \in S : <<y, x>> \in R}
           n == Cardinality(S)
<1>1. n \in Nat
  BY FS_CardinalityType
<1>2. \A x \in S : IsFiniteSet(Below(x)) /\ Cardinality(Below(x)) \in Nat
  BY FS_Subset, FS_CardinalityType
<1>3. \A x \in S : Cardinality(Below(x)) <= n - 1
  <2> TAKE x \in S
  <2>1. Below(x) \in SUBSET (S \ {x})
    BY DEF Orders
  <2>2. IsFiniteSet(S \ {x}) /\ Cardinality(S \ {x}) = n - 1
    BY FS_RemoveElement
  <2> QED BY <2>1, <2>2, FS_Subset
<1>4. ASSUME NEW x \in S, NEW y \in S, <<x, y>> \in R
      PROVE  Cardinality(Below(x)) < Cardinality(Below(y))
  <2>1. Below(x) \cup {x} \in SUBSET Below(y)
    BY <1>4 DEF Orders
  <2>2. x \notin Below(x)
    BY DEF Orders
  <2>3. Cardinality(Below(x) \cup {x}) = Cardinality(Below(x)) + 1
    BY <1>2, <2>2, FS_AddElement
  <2>4. Cardinality(Below(x) \cup {x}) <= Cardinality(Below(y))
    <3> HIDE DEF Below
    <3> QED BY <1>2, <2>1, FS_Subset
  <2> HIDE DEF Below
  <2> QED BY <1>2, <2>3, <2>4
<1> HIDE DEF Below
<1>5. \A x \in S : Cardinality(Below(x)) \in 0..(n - 1)
  BY <1>1, <1>2, <1>3
<1> QED BY <1>1, <1>4, <1>5 DEF Rank, Below

\* Every place is taken.
LEMMA RanksAll ==
  ASSUME NEW S, IsFiniteSet(S), NEW R, Orders(R, S), NEW i \in 1..Cardinality(S)
  PROVE  \E x \in S : Rank(R, S, x) = i - 1
<1> DEFINE n == Cardinality(S)
           f == [x \in S |-> Rank(R, S, x) + 1]
<1>1. /\ n \in Nat
      /\ \A x \in S : Rank(R, S, x) \in 0..(n - 1)
      /\ \A x, y \in S : <<x, y>> \in R => Rank(R, S, x) < Rank(R, S, y)
  BY RanksAre
<1>2. f \in [S -> 1..n]
  BY <1>1
<1>3. \A x, y \in S : f[x] = f[y] => x = y
  <2> SUFFICES ASSUME NEW x \in S, NEW y \in S, x # y PROVE f[x] # f[y]
    OBVIOUS
  <2>1. <<x, y>> \in R \/ <<y, x>> \in R
    BY DEF Orders
  <2>2. Rank(R, S, x) < Rank(R, S, y) \/ Rank(R, S, y) < Rank(R, S, x)
    BY <1>1, <2>1
  <2>3. Rank(R, S, x) \in Int /\ Rank(R, S, y) \in Int
    BY <1>1
  <2> QED BY <2>2, <2>3
<1>4. f \in Injection(S, 1..n)
  <2> HIDE DEF f
  <2> QED BY <1>2, <1>3 DEF Injection, IsInjective
<1>5. IsFiniteSet(1..n) /\ Cardinality(1..n) = n
  BY <1>1, FS_Interval
<1>6. f \in Surjection(S, 1..n)
  <2> HIDE DEF f
  <2> QED BY <1>4, <1>5, FS_Injection
<1>7. \E x \in S : f[x] = i
  <2> HIDE DEF f
  <2> QED BY <1>6 DEF Surjection
<1> QED BY <1>1, <1>7

\* A sequence by rank has every member once, in order.
LEMMA RankedIs ==
  ASSUME NEW S, IsFiniteSet(S), NEW R, Orders(R, S),
         NEW q \in [1..Cardinality(S) -> S],
         \A i \in 1..Cardinality(S) : Rank(R, S, q[i]) = i - 1
  PROVE  /\ q \in Seq(S) /\ Len(q) = Cardinality(S) /\ ToSet(q) = S
         /\ \A i, j \in DOMAIN q : i < j => <<q[i], q[j]>> \in R
<1> DEFINE n == Cardinality(S)
<1>1. /\ n \in Nat
      /\ \A x \in S : Rank(R, S, x) \in 0..(n - 1)
      /\ \A x, y \in S : <<x, y>> \in R => Rank(R, S, x) < Rank(R, S, y)
  BY RanksAre
<1>3. q \in Seq(S) /\ Len(q) = n
  BY <1>1
<1>4. ASSUME NEW x \in S PROVE x \in ToSet(q)
  <2> DEFINE i == Rank(R, S, x) + 1
  <2>1. i \in 1..n /\ i - 1 = Rank(R, S, x)
    BY <1>1
  <2>2. q[i] \in S /\ Rank(R, S, q[i]) = Rank(R, S, x)
    BY <2>1
  <2>3. q[i] = x
    <3> SUFFICES ASSUME q[i] # x PROVE FALSE
      OBVIOUS
    <3>1. <<q[i], x>> \in R \/ <<x, q[i]>> \in R
      BY <2>2 DEF Orders
    <3>2. Rank(R, S, q[i]) < Rank(R, S, x) \/ Rank(R, S, x) < Rank(R, S, q[i])
      BY <1>1, <2>2, <3>1
    <3>3. Rank(R, S, x) \in Int
      BY <1>1
    <3> QED BY <2>2, <3>2, <3>3
  <2> QED BY <2>1, <2>3 DEF ToSet
<1>5. ToSet(q) = S
  BY <1>4 DEF ToSet
<1>6. ASSUME NEW i \in DOMAIN q, NEW j \in DOMAIN q, i < j PROVE <<q[i], q[j]>> \in R
  <2>0. i \in 1..n /\ j \in 1..n
    OBVIOUS
  <2>1. q[i] \in S /\ q[j] \in S /\ Rank(R, S, q[i]) = i - 1 /\ Rank(R, S, q[j]) = j - 1
    BY <2>0
  <2>2. i \in Nat /\ j \in Nat
    BY <1>1, <2>0
  <2>3. q[i] # q[j]
    BY <1>6, <2>1, <2>2
  <2>4. ~(<<q[j], q[i]>> \in R)
    BY <1>1, <1>6, <2>1, <2>2
  <2> QED BY <2>1, <2>3, <2>4 DEF Orders
<1> QED BY <1>3, <1>5, <1>6

\* A sequence has finitely many members.
LEMMA ListedFinite ==
  ASSUME NEW D, NEW s \in Seq(D)
  PROVE  IsFiniteSet(ToSet(s))
<1>1. s \in [1..Len(s) -> ToSet(s)] /\ Len(s) \in Nat
  BY DEF ToSet
<1>2. s \in Surjection(1..Len(s), ToSet(s))
  BY <1>1 DEF ToSet, Surjection
<1>3. IsFiniteSet(1..Len(s))
  BY <1>1, FS_Interval
<1> QED BY <1>2, <1>3, FS_Surjection

\* Fetch's sort: the same objects, none twice, in order.
LEMMA SortedIs ==
  ASSUME NEW X, \A x \in X : x.ns \in Nat /\ x.name \in Nat,
         NEW list \in Seq(X),
         \A i, j \in DOMAIN list : list[i].ns = list[j].ns /\ list[i].name = list[j].name => i = j
  PROVE  LET q == SortedByName(list)
         IN  /\ q \in Seq(X) /\ ToSet(q) = ToSet(list)
             /\ \A i, j \in DOMAIN q : i < j => Before(q[i], q[j])
<1> DEFINE S == ToSet(list)
           R == {p \in S \X S : Before(p[1], p[2])}
           q == SortedByName(list)
<1>1. IsFiniteSet(S) /\ S \subseteq X
  BY ListedFinite DEF ToSet
<1>2. \A x, y \in S : x.ns = y.ns /\ x.name = y.name => x = y
  BY DEF ToSet
<1>3. \A x, y \in S : <<x, y>> \in R <=> Before(x, y)
  OBVIOUS
<1>4. Orders(R, S)
  <2>1. \A x \in S : x.ns \in Nat /\ x.name \in Nat
    BY <1>1
  <2>2. \A x \in S : ~Before(x, x)
    BY <2>1 DEF Before
  <2>3. \A x, y, z \in S : Before(x, y) /\ Before(y, z) => Before(x, z)
    BY <2>1 DEF Before
  <2>4. \A x, y \in S : x # y => Before(x, y) \/ Before(y, x)
    BY <2>1, <1>2 DEF Before
  <2> HIDE DEF R, S
  <2> QED BY <1>3, <2>2, <2>3, <2>4 DEF Orders
<1>5. q = [i \in 1..Cardinality(S) |->
             CHOOSE x \in S : Cardinality({y \in S : Before(y, x)}) = i - 1]
  BY DEF SortedByName, InOrder
<1>6. \A x \in S : {y \in S : Before(y, x)} = {y \in S : <<y, x>> \in R}
  BY <1>3
<1>7. ASSUME NEW i \in 1..Cardinality(S) PROVE q[i] \in S /\ Rank(R, S, q[i]) = i - 1
  <2> HIDE DEF R, S, q
  <2>0. \E x \in S : Rank(R, S, x) = i - 1
    BY <1>1, <1>4, <1>6, RanksAll
  <2>1. \E x \in S : Cardinality({y \in S : Before(y, x)}) = i - 1
    BY <1>6, <2>0 DEF Rank
  <2>2. q[i] \in S /\ Cardinality({y \in S : Before(y, q[i])}) = i - 1
    BY <1>5, <2>1
  <2> QED BY <1>6, <2>2 DEF Rank
<1>8. q \in [1..Cardinality(S) -> S]
  <2> HIDE DEF q
  <2> QED BY <1>5, <1>7
<1>9. /\ q \in Seq(S) /\ ToSet(q) = S
      /\ \A i, j \in DOMAIN q : i < j => <<q[i], q[j]>> \in R
  <2> HIDE DEF R, S, q
  <2> QED BY <1>1, <1>4, <1>7, <1>8, RankedIs
<1>10. q \in Seq(X)
  BY <1>1, <1>9
<1>11. \A i \in DOMAIN q : q[i] \in S
  <2> HIDE DEF q
  <2> QED BY <1>9
<1> HIDE DEF q, R, S
<1> QED BY <1>3, <1>9, <1>10, <1>11 DEF S, q

\* The order of hosts in a summary, and that of printed host names.
LEMMA HostsInOrder ==
  ASSUME NEW S \in SUBSET Nat, IsFiniteSet(S)
  PROVE  LET q == InOrder(S, HostBefore)
         IN  /\ q \in Seq(S) /\ ToSet(q) = S
             /\ \A i, j \in DOMAIN q : i < j => HostBefore(q[i], q[j])
<1> DEFINE R == {p \in S \X S : HostBefore(p[1], p[2])}
           q == InOrder(S, HostBefore)
<1>3. \A x, y \in S : <<x, y>> \in R <=> HostBefore(x, y)
  OBVIOUS
<1>4. Orders(R, S)
  <2>2. \A x \in S : ~HostBefore(x, x)
    BY DEF HostBefore
  <2>3. \A x, y, z \in S : HostBefore(x, y) /\ HostBefore(y, z) => HostBefore(x, z)
    BY DEF HostBefore, CatchAll
  <2>4. \A x, y \in S : x # y => HostBefore(x, y) \/ HostBefore(y, x)
    BY DEF HostBefore, CatchAll
  <2> HIDE DEF R
  <2> QED BY <1>3, <2>2, <2>3, <2>4 DEF Orders
<1>5. q = [i \in 1..Cardinality(S) |->
             CHOOSE x \in S : Cardinality({y \in S : HostBefore(y, x)}) = i - 1]
  BY DEF InOrder
<1>6. \A x \in S : {y \in S : HostBefore(y, x)} = {y \in S : <<y, x>> \in R}
  BY <1>3
<1>7. ASSUME NEW i \in 1..Cardinality(S) PROVE q[i] \in S /\ Rank(R, S, q[i]) = i - 1
  <2> HIDE DEF R, q
  <2>0. \E x \in S : Rank(R, S, x) = i - 1
    BY <1>4, <1>6, RanksAll
  <2>1. \E x \in S : Cardinality({y \in S : HostBefore(y, x)}) = i - 1
    BY <1>6, <2>0 DEF Rank
  <2>2. q[i] \in S /\ Cardinality({y \in S : HostBefore(y, q[i])}) = i - 1
    BY <1>5, <2>1
  <2> QED BY <1>6, <2>2 DEF Rank
<1>8. q \in [1..Cardinality(S) -> S]
  <2> HIDE DEF q
  <2> QED BY <1>5, <1>7
<1>9. /\ q \in Seq(S) /\ ToSet(q) = S
      /\ \A i, j \in DOMAIN q : i < j => <<q[i], q[j]>> \in R
  <2> HIDE DEF R, q
  <2> QED BY <1>4, <1>7, <1>8, RankedIs
<1>11. \A i \in DOMAIN q : q[i] \in S
  <2> HIDE DEF q
  <2> QED BY <1>9
<1> HIDE DEF q, R
<1> QED BY <1>3, <1>9, <1>11 DEF q

\* Numbers in ascending order.
LEMMA NumbersInOrder ==
  ASSUME NEW S \in SUBSET Nat, IsFiniteSet(S)
  PROVE  LET q == InOrder(S, <)
         IN  /\ q \in Seq(S) /\ ToSet(q) = S
             /\ \A i, j \in DOMAIN q : i < j => q[i] < q[j]
<1> DEFINE R == {p \in S \X S : p[1] < p[2]}
           q == InOrder(S, <)
<1>3. \A x, y \in S : <<x, y>> \in R <=> x < y
  OBVIOUS
<1>4. Orders(R, S)
  BY <1>3 DEF Orders
<1>5. q = [i \in 1..Cardinality(S) |->
             CHOOSE x \in S : Cardinality({y \in S : y < x}) = i - 1]
  BY DEF InOrder
<1>6. \A x \in S : {y \in S : y < x} = {y \in S : <<y, x>> \in R}
  BY <1>3
<1>7. ASSUME NEW i \in 1..Cardinality(S) PROVE q[i] \in S /\ Rank(R, S, q[i]) = i - 1
  <2> HIDE DEF R, q
  <2>0. \E x \in S : Rank(R, S, x) = i - 1
    BY <1>4, <1>6, RanksAll
  <2>1. \E x \in S : Cardinality({y \in S : y < x}) = i - 1
    BY <1>6, <2>0 DEF Rank
  <2>2. q[i] \in S /\ Cardinality({y \in S : y < q[i]}) = i - 1
    BY <1>5, <2>1
  <2> QED BY <1>6, <2>2 DEF Rank
<1>8. q \in [1..Cardinality(S) -> S]
  <2> HIDE DEF q
  <2> QED BY <1>5, <1>7
<1>9. /\ q \in Seq(S) /\ ToSet(q) = S
      /\ \A i, j \in DOMAIN q : i < j => <<q[i], q[j]>> \in R
  <2> HIDE DEF R, q
  <2> QED BY <1>4, <1>7, <1>8, RankedIs
<1>11. \A i \in DOMAIN q : q[i] \in S
  <2> HIDE DEF q
  <2> QED BY <1>9
<1> HIDE DEF q, R
<1> QED BY <1>3, <1>9, <1>11 DEF q

\* The routes of a bucket, one at a time, and of a route its hosts.
Rules(kind, routes) == UNION {ToSet(SummaryRules(kind, r)) : r \in ToSet(routes)}
Adding(R, hosts, rules, h) ==
    [i \in 1..Len(hosts) |-> [v \in Seq(R) |-> IF hosts[i] = h THEN v \o rules ELSE v]]
AddedOf(kind, r, h) == Added(HostsDeclared(r), SummaryRules(kind, r), h)
Contributing(kind, routes, gw, l, h) ==
    [i \in 1..Len(routes) |-> [v \in Seq(Rules(kind, routes)) |->
       IF routeAttachesTo(routes[i], gw, l) THEN v \o AddedOf(kind, routes[i], h) ELSE v]]

\* The rules of one route.
LEMMA RulesAre ==
  ASSUME NEW kind, NEW routes \in Seq(Routes), NEW r \in ToSet(routes)
  PROVE  LET R == SummaryRules(kind, r)
         IN  /\ R \in Seq(Rules(kind, routes)) /\ Len(R) = Len(r.rules)
             /\ \A n \in 1..Len(r.rules) : /\ R[n].kind = kind /\ R[n].ns = r.ns
                                           /\ R[n].name = r.name /\ R[n].rule = n - 1
<1> DEFINE R == SummaryRules(kind, r)
<1>1. r \in Routes
  BY DEF ToSet
<1>2. DOMAIN r.rules = 1..Len(r.rules) /\ Len(r.rules) \in Nat
  BY <1>1 DEF Routes
<1>3. R = [i \in 1..Len(r.rules) |->
             [kind |-> kind, ns |-> r.ns, name |-> r.name, rule |-> i - 1,
              matches |-> [j \in DOMAIN r.rules[i].matches |-> MatchType(kind, r.rules[i].matches[j])],
              backends |-> Backends(kind, r.rules[i], r.ns)]]
  BY <1>2 DEF SummaryRules
<1>4. DOMAIN R = 1..Len(r.rules) /\ \A n \in 1..Len(r.rules) :
         R[n].kind = kind /\ R[n].ns = r.ns /\ R[n].name = r.name /\ R[n].rule = n - 1
  BY <1>3
<1>5. \A n \in 1..Len(r.rules) : R[n] \in Rules(kind, routes)
  BY <1>4 DEF Rules, ToSet
<1>6. R \in [1..Len(r.rules) -> Rules(kind, routes)]
  <2>1. R = [i \in DOMAIN R |-> R[i]]
    BY <1>3
  <2> HIDE DEF R
  <2> QED BY <1>4, <1>5, <2>1
<1> HIDE DEF R
<1>7. R \in Seq(Rules(kind, routes)) /\ Len(R) = Len(r.rules)
  BY <1>2, <1>6
<1> QED BY <1>4, <1>7 DEF R

\* A bucket has the rules due, each in a place of its own.
Matches(b, E) ==
    \E f \in [DOMAIN b -> E] :
       /\ \A j, k \in DOMAIN b : f[j] = f[k] => j = k
       /\ \A x \in E : \E j \in DOMAIN b : f[j] = x
       /\ \A j \in DOMAIN b : Id(b[j]) = RuleOf(f[j])

Due(kind, r, K) == {<<kind, r.ns, r.name, n - 1, k>> : n \in DOMAIN r.rules, k \in K}

LEMMA MatchesNothing == Matches(<<>>, {})
<1>1. DOMAIN <<>> = {}
  OBVIOUS
<1> DEFINE f == [j \in DOMAIN <<>> |-> 0]
<1>2. f \in [DOMAIN <<>> -> {}]
  BY <1>1
<1> QED BY <1>1, <1>2 DEF Matches

\* Two lists joined have what both should have.
LEMMA MatchesJoined ==
  ASSUME NEW D, NEW x \in Seq(D), NEW E, NEW y \in Seq(E), NEW S, NEW U,
         Matches(x, S), Matches(y, U), S \cap U = {}
  PROVE  Matches(x \o y, S \cup U)
<1> DEFINE z == x \o y
<1>1. /\ Len(x) \in Nat /\ Len(y) \in Nat /\ DOMAIN x = 1..Len(x) /\ DOMAIN y = 1..Len(y)
      /\ DOMAIN z = 1..(Len(x) + Len(y))
      /\ \A i \in 1..(Len(x) + Len(y)) : z[i] = IF i <= Len(x) THEN x[i] ELSE y[i - Len(x)]
  <2>1. x \in Seq(D \cup E) /\ y \in Seq(D \cup E)
    OBVIOUS
  <2> QED BY <2>1
<1> HIDE DEF z
<1>2. \A i \in DOMAIN z : \/ i \in DOMAIN x /\ z[i] = x[i]
                          \/ i - Len(x) \in DOMAIN y /\ z[i] = y[i - Len(x)] /\ i \notin DOMAIN x
  BY <1>1
<1>3. \A i \in DOMAIN x : i \in DOMAIN z /\ z[i] = x[i]
  BY <1>1
<1>4. \A i \in DOMAIN y : /\ Len(x) + i \in DOMAIN z /\ z[Len(x) + i] = y[i]
                          /\ Len(x) + i \notin DOMAIN x /\ (Len(x) + i) - Len(x) = i
  BY <1>1
<1>5. PICK f \in [DOMAIN x -> S] : /\ \A j, k \in DOMAIN x : f[j] = f[k] => j = k
                                   /\ \A e \in S : \E j \in DOMAIN x : f[j] = e
                                   /\ \A j \in DOMAIN x : Id(x[j]) = RuleOf(f[j])
  BY DEF Matches
<1>6. PICK g \in [DOMAIN y -> U] : /\ \A j, k \in DOMAIN y : g[j] = g[k] => j = k
                                   /\ \A e \in U : \E j \in DOMAIN y : g[j] = e
                                   /\ \A j \in DOMAIN y : Id(y[j]) = RuleOf(g[j])
  BY DEF Matches
<1> DEFINE w == [i \in DOMAIN z |-> IF i \in DOMAIN x THEN f[i] ELSE g[i - Len(x)]]
<1>7. w \in [DOMAIN z -> S \cup U]
  BY <1>2, <1>5, <1>6
<1>8. \A i \in DOMAIN z : \/ i \in DOMAIN x /\ w[i] = f[i] /\ f[i] \in S
                          \/ i \notin DOMAIN x /\ i - Len(x) \in DOMAIN y
                             /\ w[i] = g[i - Len(x)] /\ g[i - Len(x)] \in U
  BY <1>2, <1>5, <1>6
<1> HIDE DEF w
<1>9. ASSUME NEW i \in DOMAIN z, NEW j \in DOMAIN z, w[i] = w[j] PROVE i = j
  <2>1. CASE i \in DOMAIN x /\ j \in DOMAIN x
    BY <1>5, <1>8, <1>9, <2>1
  <2>2. CASE i \notin DOMAIN x /\ j \notin DOMAIN x
    <3>1. i - Len(x) = j - Len(x)
      BY <1>6, <1>8, <1>9, <2>2
    <3>2. i \in Int /\ j \in Int
      BY <1>1
    <3> QED BY <1>1, <3>1, <3>2
  <2>3. ~(i \in DOMAIN x /\ j \notin DOMAIN x) /\ ~(i \notin DOMAIN x /\ j \in DOMAIN x)
    BY <1>8, <1>9
  <2> QED BY <2>1, <2>2, <2>3
<1>10. \A e \in S \cup U : \E j \in DOMAIN z : w[j] = e
  <2>1. \A j \in DOMAIN x : j \in DOMAIN z /\ w[j] = f[j]
    BY <1>3, <1>8
  <2>2. \A j \in DOMAIN y : Len(x) + j \in DOMAIN z /\ w[Len(x) + j] = g[j]
    BY <1>4, <1>8
  <2>3. \A e \in S : \E j \in DOMAIN z : w[j] = e
    BY <1>5, <2>1
  <2>4. \A e \in U : \E j \in DOMAIN z : w[j] = e
    BY <1>6, <2>2
  <2> QED BY <2>3, <2>4
<1>11. \A j \in DOMAIN z : Id(z[j]) = RuleOf(w[j])
  BY <1>2, <1>5, <1>6, <1>8
<1> QED BY <1>7, <1>9, <1>10, <1>11 DEF Matches, z

\* Counted, that is every rule as often as it is due.
LEMMA MatchesCounted ==
  ASSUME NEW D, NEW b \in Seq(D), NEW E, Matches(b, E)
  PROVE  BucketExact(b, E) /\ (b # <<>> <=> E # {})
<1>1. PICK f \in [DOMAIN b -> E] : /\ \A j, k \in DOMAIN b : f[j] = f[k] => j = k
                                   /\ \A x \in E : \E j \in DOMAIN b : f[j] = x
                                   /\ \A j \in DOMAIN b : Id(b[j]) = RuleOf(f[j])
  BY DEF Matches
<1>2. Len(b) \in Nat /\ DOMAIN b = 1..Len(b)
  OBVIOUS
<1>3. ASSUME NEW x
      PROVE  Cardinality({j \in DOMAIN b : Id(b[j]) = x}) = Cardinality({e \in E : RuleOf(e) = x})
  <2> DEFINE J == {j \in DOMAIN b : Id(b[j]) = x}
             X == {e \in E : RuleOf(e) = x}
             g == [j \in J |-> f[j]]
  <2>1. IsFiniteSet(J)
    <3>1. IsFiniteSet(1..Len(b)) /\ J \subseteq 1..Len(b)
      BY <1>2, FS_Interval
    <3> QED BY <3>1, FS_Subset
  <2>2. g \in [J -> X]
    BY <1>1
  <2>3. \A j, k \in J : g[j] = g[k] => j = k
    BY <1>1
  <2>4. \A e \in X : \E j \in J : g[j] = e
    <3> TAKE e \in X
    <3>1. PICK j \in DOMAIN b : f[j] = e
      BY <1>1
    <3>2. j \in J
      BY <1>1, <3>1
    <3> QED BY <3>1, <3>2
  <2> HIDE DEF J, X, g
  <2>5. ExistsBijection(J, X)
    BY <2>2, <2>3, <2>4
       DEF ExistsBijection, Bijection, Injection, Surjection, IsInjective
  <2>6. Cardinality(X) = Cardinality(J)
    BY <2>1, <2>5, FS_Bijection
  <2> QED BY <2>6 DEF J, X
<1>4. b # <<>> <=> E # {}
  <2>1. b # <<>> <=> Len(b) # 0
    OBVIOUS
  <2>2. Len(b) # 0 <=> DOMAIN b # {}
    BY <1>2
  <2> QED BY <1>1, <2>1, <2>2
<1> QED BY <1>3, <1>4 DEF BucketExact

\* The rules of a route, each once.
LEMMA RulesMatch ==
  ASSUME NEW kind, NEW routes \in Seq(Routes), NEW r \in ToSet(routes), NEW k
  PROVE  Matches(SummaryRules(kind, r), Due(kind, r, {k}))
<1> DEFINE R == SummaryRules(kind, r)
<1>1. /\ R \in Seq(Rules(kind, routes)) /\ Len(R) = Len(r.rules)
      /\ \A n \in 1..Len(r.rules) : /\ R[n].kind = kind /\ R[n].ns = r.ns
                                    /\ R[n].name = r.name /\ R[n].rule = n - 1
  BY RulesAre, Z3
<1>2. r \in Routes
  BY DEF ToSet
<1>3. DOMAIN r.rules = 1..Len(r.rules) /\ Len(r.rules) \in Nat
  BY <1>2 DEF Routes
<1> HIDE DEF R
<1> DEFINE f == [n \in DOMAIN r.rules |-> <<kind, r.ns, r.name, n - 1, k>>]
<1>4. DOMAIN R = DOMAIN r.rules
  BY <1>1, <1>3
<1>5. \A n \in DOMAIN R : Id(R[n]) = RuleOf(f[n])
  BY <1>1, <1>3, <1>4 DEF Id, RuleOf
<1>6. \A n, m \in DOMAIN r.rules : f[n] = f[m] => n = m
  <2>1. \A n, m \in DOMAIN r.rules : n - 1 = m - 1 => n = m
    BY <1>3
  <2> QED BY <2>1
<1>7. f \in [DOMAIN r.rules -> Due(kind, r, {k})]
  BY DEF Due
<1>8. \A x \in Due(kind, r, {k}) : \E n \in DOMAIN r.rules : f[n] = x
  BY DEF Due
<1> HIDE DEF f
<1> QED BY <1>4, <1>5, <1>6, <1>7, <1>8 DEF Matches, R

\* The fold over the hosts of a route, as a recursion over a prefix.
LEMMA AddedRuns ==
  ASSUME NEW R, NEW rules \in Seq(R), NEW hosts \in Seq(Nat), NEW h
  PROVE  \E acc : /\ Accumulates(acc, Len(hosts), Seq(R), <<>>, Adding(R, hosts, rules, h))
                  /\ acc[Len(hosts)] = Added(hosts, rules, h)
<1> DEFINE s == hosts
           n == Len(s)
           V == Seq(R)
           base == <<>>
           fold == Adding(R, hosts, rules, h)
           Body(g, x) == IF x = {} THEN base
                         ELSE IF s[Max(x)] = h THEN g[x \ {Max(x)}] \o rules
                              ELSE g[x \ {Max(x)}]
           iter == CHOOSE g : g = [x \in SUBSET (DOMAIN s) |-> Body(g, x)]
<1>1. n \in Nat /\ DOMAIN s = 1..n /\ base \in V /\ fold \in [1..n -> [V -> V]]
  <2>3. \A v \in V : v \o rules \in V
    OBVIOUS
  <2>4. fold \in [1..n -> [V -> V]]
    <3> HIDE DEF V
    <3> QED BY <2>3 DEF Adding, V
  <2> QED BY <2>4
<1>2. Added(hosts, rules, h) = iter[DOMAIN s]
  BY Zenon DEF Added, FoldLeft, MapThenFoldSet
<1>3. \A x \in SUBSET (1..n) : x # {} => Max(x) \in 1..n /\ x \ {Max(x)} \in SUBSET (1..n)
  <2> HIDE DEF n
  <2> QED BY <1>1, GreatestIndex
<1>4. \A i \in 1..n, v \in V :
         fold[i][v] = IF s[i] = h THEN v \o rules ELSE v
  BY DEF Adding
<1>5. \E g : g = [x \in SUBSET (1..n) |-> Body(g, x)]
  <2> HIDE DEF n, V, fold, base
  <2>1. PICK g : FoldsBy(g, n, V, base, fold)
    BY <1>1, FoldTable
  <2>2. g \in [SUBSET (1..n) -> V]
    BY <2>1 DEF FoldsBy
  <2>3. \A x \in SUBSET (1..n) : g[x] = Body(g, x)
    <3> TAKE x \in SUBSET (1..n)
    <3>1. CASE x = {}
      BY <2>1, <3>1 DEF FoldsBy
    <3>2. CASE x # {}
      <4>1. Max(x) \in 1..n /\ g[x \ {Max(x)}] \in V
        BY <1>3, <2>2, <3>2
      <4>2. g[x] = fold[Max(x)][g[x \ {Max(x)}]]
        BY <2>1, <3>2 DEF FoldsBy
      <4> HIDE DEF iter
      <4> QED BY <1>4, <3>2, <4>1, <4>2
    <3> QED BY <3>1, <3>2
  <2>4. g = [x \in SUBSET (1..n) |-> Body(g, x)]
    <3> HIDE DEF Body
    <3> QED BY <2>2, <2>3
  <2> QED BY <2>4
<1>6. iter = [x \in SUBSET (1..n) |-> Body(iter, x)]
  <2> HIDE DEF Body, n
  <2> QED BY <1>1, <1>5
<1>7. FoldsWithin(iter, n, V, base, fold)
  <2> HIDE DEF iter, n, V, fold, base
  <2>1. iter[{}] = base
    BY <1>6
  <2>2. ASSUME NEW x \in SUBSET (1..n), x # {}, iter[x \ {Max(x)}] \in V
        PROVE  iter[x] = fold[Max(x)][iter[x \ {Max(x)}]]
    <3>1. Max(x) \in 1..n
      BY <1>3, <2>2
    <3>2. iter[x] = IF s[Max(x)] = h THEN iter[x \ {Max(x)}] \o rules ELSE iter[x \ {Max(x)}]
      BY <1>6, <2>2
    <3> HIDE DEF s
    <3> QED BY <1>4, <2>2, <3>1, <3>2
  <2> QED BY <2>1, <2>2 DEF FoldsWithin
<1>8. \E acc : Accumulates(acc, n, V, base, fold) /\ acc[n] = iter[1..n]
  <2> HIDE DEF iter, n, V, fold, base
  <2> QED BY <1>1, <1>7, FoldSteps
<1> HIDE DEF iter
<1> QED BY <1>1, <1>2, <1>8

\* Under a host the rules of a route, as often as it declares the host.
LEMMA AddedIs ==
  ASSUME NEW kind, NEW routes \in Seq(Routes), NEW r \in ToSet(routes), NEW h
  PROVE  /\ AddedOf(kind, r, h) \in Seq(Rules(kind, routes))
         /\ Matches(AddedOf(kind, r, h), Due(kind, r, Declares(r, h)))
<1> DEFINE hosts == HostsDeclared(r)
           rules == SummaryRules(kind, r)
           R == Rules(kind, routes)
           n == Len(hosts)
           At(i) == {k \in 1..i : hosts[k] = h}
<1>1. r \in Routes
  BY DEF ToSet
<1>2. hosts \in Seq(Nat) /\ rules \in Seq(R)
  <2>1. r.hostnames \in Seq(Nat) /\ CatchAll \in Nat
    BY <1>1 DEF Routes, CatchAll
  <2> QED BY <2>1, RulesAre DEF HostsDeclared
<1>3. n \in Nat /\ DOMAIN hosts = 1..n
  BY <1>2
<1>4. Declares(r, h) = At(n)
  <2>1. CASE r.hostnames = <<>>
    <3>1. hosts = <<CatchAll>> /\ n = 1 /\ DOMAIN r.hostnames = {}
      BY <2>1 DEF HostsDeclared
    <3>2. Declares(r, h) = IF h = CatchAll THEN {1} ELSE {}
      BY <2>1, <3>1 DEF Declares
    <3>3. hosts[1] = CatchAll /\ 1..n = {1}
      BY <3>1
    <3> HIDE DEF hosts, n
    <3> QED BY <3>2, <3>3
  <2>2. CASE r.hostnames # <<>>
    <3>1. hosts = r.hostnames
      BY <2>2 DEF HostsDeclared
    <3>2. Declares(r, h) = {k \in DOMAIN r.hostnames : r.hostnames[k] = h}
      BY <2>2 DEF Declares
    <3> HIDE DEF hosts, n
    <3> QED BY <1>3, <3>1, <3>2
  <2> QED BY <2>1, <2>2
<1> HIDE DEF hosts, rules, R
<1>5. PICK acc : /\ Accumulates(acc, n, Seq(R), <<>>, Adding(R, hosts, rules, h))
                 /\ acc[n] = Added(hosts, rules, h)
  BY <1>2, AddedRuns
<1> HIDE DEF n
<1>6. /\ acc \in [0..n -> Seq(R)] /\ acc[0] = <<>>
      /\ \A i \in 1..n : acc[i] = IF hosts[i] = h THEN acc[i - 1] \o rules ELSE acc[i - 1]
  <2>1. acc \in [0..n -> Seq(R)] /\ acc[0] = <<>>
    BY <1>5 DEF Accumulates
  <2>2. \A i \in 1..n : acc[i] = Adding(R, hosts, rules, h)[i][acc[i - 1]]
    BY <1>5 DEF Accumulates
  <2>3. \A i \in 1..n : acc[i - 1] \in Seq(R)
    BY <1>3, <2>1
  <2> QED BY <2>1, <2>2, <2>3 DEF Adding, n
<1> DEFINE S == {i \in 0..n : Matches(acc[i], Due(kind, r, At(i)))}
<1>7. 0 \in S
  <2>1. Due(kind, r, At(0)) = {}
    BY DEF Due
  <2>2. Matches(acc[0], Due(kind, r, At(0)))
    <3> HIDE DEF At
    <3> QED BY <1>6, <2>1, MatchesNothing
  <2> QED BY <1>3, <2>2
<1>8. \A i \in 0..(n - 1) : i \in S => i + 1 \in S
  <2> TAKE i \in 0..(n - 1)
  <2> HAVE i \in S
  <2>1. i + 1 \in 1..n /\ (i + 1) - 1 = i /\ i + 1 \in 0..n /\ i \in 0..n /\ i + 1 \notin 1..i
    BY <1>3
  <2>2. CASE hosts[i + 1] = h
    <3>1. At(i + 1) = At(i) \cup {i + 1}
      BY <2>1, <2>2
    <3>2. Due(kind, r, At(i + 1)) = Due(kind, r, At(i)) \cup Due(kind, r, {i + 1})
      <4> DEFINE A == At(i)
                 B == At(i + 1)
      <4>1. B = A \cup {i + 1}
        BY <3>1
      <4> HIDE DEF A, B
      <4>2. Due(kind, r, B) = Due(kind, r, A) \cup Due(kind, r, {i + 1})
        BY <4>1 DEF Due
      <4> QED BY <4>2 DEF A, B
    <3>3. Due(kind, r, At(i)) \cap Due(kind, r, {i + 1}) = {}
      BY <2>1 DEF Due
    <3>4. acc[i + 1] = acc[i] \o rules /\ acc[i] \in Seq(R)
      BY <1>6, <2>1, <2>2
    <3>5. Matches(rules, Due(kind, r, {i + 1}))
      BY RulesMatch DEF rules
    <3>6. Matches(acc[i], Due(kind, r, At(i)))
      OBVIOUS
    <3>7. Matches(acc[i + 1], Due(kind, r, At(i + 1)))
      <4> DEFINE A == At(i)
                 B == At(i + 1)
      <4> HIDE DEF At, A, B
      <4>1. Matches(acc[i] \o rules, Due(kind, r, A) \cup Due(kind, r, {i + 1}))
        BY <1>2, <3>3, <3>4, <3>5, <3>6, MatchesJoined DEF A
      <4> QED BY <3>2, <3>4, <4>1 DEF A, B
    <3> HIDE DEF At
    <3> QED BY <2>1, <3>7
  <2>3. CASE hosts[i + 1] # h
    <3>1. At(i + 1) = At(i)
      BY <2>1, <2>3
    <3>2. acc[i + 1] = acc[i]
      BY <1>6, <2>1, <2>3
    <3> HIDE DEF At
    <3> QED BY <2>1, <3>1, <3>2
  <2> QED BY <2>2, <2>3
<1>9. n \in S /\ acc[n] \in Seq(R)
  <2>1. 0..n \subseteq S
    <3> HIDE DEF S
    <3> QED BY <1>3, <1>7, <1>8, NumbersByInduction
  <2>2. n \in 0..n
    BY <1>3
  <2> QED BY <1>6, <2>1, <2>2
<1>10. acc[n] = AddedOf(kind, r, h)
  BY <1>5 DEF AddedOf, hosts, rules
<1> QED BY <1>4, <1>9, <1>10 DEF R

\* The fold over the routes of a kind, as a recursion over a prefix.
LEMMA ContributionRuns ==
  ASSUME NEW kind, NEW routes \in Seq(Routes), NEW gw, NEW l, NEW h
  PROVE  \E acc : /\ Accumulates(acc, Len(routes), Seq(Rules(kind, routes)), <<>>,
                                 Contributing(kind, routes, gw, l, h))
                  /\ acc[Len(routes)] = Contribution(kind, routes, gw, l, h)
<1> DEFINE s == routes
           n == Len(s)
           V == Seq(Rules(kind, routes))
           base == <<>>
           fold == Contributing(kind, routes, gw, l, h)
           Body(g, x) == IF x = {} THEN base
                         ELSE IF routeAttachesTo(s[Max(x)], gw, l)
                              THEN g[x \ {Max(x)}] \o AddedOf(kind, s[Max(x)], h)
                              ELSE g[x \ {Max(x)}]
           iter == CHOOSE g : g = [x \in SUBSET (DOMAIN s) |-> Body(g, x)]
<1>1. n \in Nat /\ DOMAIN s = 1..n /\ base \in V /\ fold \in [1..n -> [V -> V]]
  <2>1. \A i \in 1..n : s[i] \in ToSet(routes)
    BY DEF ToSet
  <2>2. \A i \in 1..n : AddedOf(kind, s[i], h) \in V
    BY <2>1, AddedIs
  <2>3. \A i \in 1..n, v \in V : v \o AddedOf(kind, s[i], h) \in V
    BY <2>2
  <2>4. fold \in [1..n -> [V -> V]]
    <3> HIDE DEF V
    <3> QED BY <2>3 DEF Contributing, V
  <2> QED BY <2>4
<1>2. Contribution(kind, routes, gw, l, h) = iter[DOMAIN s]
  BY Zenon DEF Contribution, AddedOf, FoldLeft, MapThenFoldSet
<1>3. \A x \in SUBSET (1..n) : x # {} => Max(x) \in 1..n /\ x \ {Max(x)} \in SUBSET (1..n)
  <2> HIDE DEF n
  <2> QED BY <1>1, GreatestIndex
<1>4. \A i \in 1..n, v \in V :
         fold[i][v] = IF routeAttachesTo(s[i], gw, l) THEN v \o AddedOf(kind, s[i], h) ELSE v
  BY DEF Contributing
<1>5. \E g : g = [x \in SUBSET (1..n) |-> Body(g, x)]
  <2> HIDE DEF n, V, fold, base
  <2>1. PICK g : FoldsBy(g, n, V, base, fold)
    BY <1>1, FoldTable
  <2>2. g \in [SUBSET (1..n) -> V]
    BY <2>1 DEF FoldsBy
  <2>3. \A x \in SUBSET (1..n) : g[x] = Body(g, x)
    <3> TAKE x \in SUBSET (1..n)
    <3>1. CASE x = {}
      BY <2>1, <3>1 DEF FoldsBy
    <3>2. CASE x # {}
      <4>1. Max(x) \in 1..n /\ g[x \ {Max(x)}] \in V
        BY <1>3, <2>2, <3>2
      <4>2. g[x] = fold[Max(x)][g[x \ {Max(x)}]]
        BY <2>1, <3>2 DEF FoldsBy
      <4> HIDE DEF iter
      <4> QED BY <1>4, <3>2, <4>1, <4>2
    <3> QED BY <3>1, <3>2
  <2>4. g = [x \in SUBSET (1..n) |-> Body(g, x)]
    <3> HIDE DEF Body
    <3> QED BY <2>2, <2>3
  <2> QED BY <2>4
<1>6. iter = [x \in SUBSET (1..n) |-> Body(iter, x)]
  <2> HIDE DEF Body, n
  <2> QED BY <1>1, <1>5
<1>7. FoldsWithin(iter, n, V, base, fold)
  <2> HIDE DEF iter, n, V, fold, base
  <2>1. iter[{}] = base
    BY <1>6
  <2>2. ASSUME NEW x \in SUBSET (1..n), x # {}, iter[x \ {Max(x)}] \in V
        PROVE  iter[x] = fold[Max(x)][iter[x \ {Max(x)}]]
    <3>1. Max(x) \in 1..n
      BY <1>3, <2>2
    <3>2. iter[x] = IF routeAttachesTo(s[Max(x)], gw, l)
                    THEN iter[x \ {Max(x)}] \o AddedOf(kind, s[Max(x)], h)
                    ELSE iter[x \ {Max(x)}]
      BY <1>6, <2>2
    <3> HIDE DEF s
    <3> QED BY <1>4, <2>2, <3>1, <3>2
  <2> QED BY <2>1, <2>2 DEF FoldsWithin
<1>8. \E acc : Accumulates(acc, n, V, base, fold) /\ acc[n] = iter[1..n]
  <2> HIDE DEF iter, n, V, fold, base
  <2> QED BY <1>1, <1>7, FoldSteps
<1> HIDE DEF iter
<1> QED BY <1>1, <1>2, <1>8

\* The rows of a summary, one Gateway at a time.
AllRows(s) == UNION {ToSet(Rows(s, gw)) : gw \in ToSet(s.gateway)}
Building(s) == [i \in 1..Len(s.gateway) |-> [v \in Seq(AllRows(s)) |-> v \o Rows(s, s.gateway[i])]]

\* A gateway's rows, one per listener.
LEMMA RowsAre ==
  ASSUME NEW s, s.gateway \in Seq(Gateways), NEW gw \in ToSet(s.gateway)
  PROVE  /\ Rows(s, gw) \in Seq(AllRows(s))
         /\ Len(Rows(s, gw)) = Len(gw.listeners) /\ Len(gw.listeners) \in Nat
         /\ DOMAIN gw.listeners = 1..Len(gw.listeners)
<1> DEFINE R == Rows(s, gw)
<1>1. gw \in Gateways
  BY DEF ToSet
<1>2. DOMAIN gw.listeners = 1..Len(gw.listeners) /\ Len(gw.listeners) \in Nat
  BY <1>1 DEF Gateways
<1>3. DOMAIN R = 1..Len(gw.listeners) /\ R = [i \in DOMAIN R |-> R[i]]
  BY <1>2 DEF Rows
<1> HIDE DEF R
<1>4. \A n \in DOMAIN R : R[n] \in AllRows(s)
  BY DEF AllRows, ToSet, R
<1>5. R \in [1..Len(gw.listeners) -> AllRows(s)]
  BY <1>3, <1>4
<1>6. R \in Seq(AllRows(s)) /\ Len(R) = Len(gw.listeners)
  BY <1>2, <1>5
<1> QED BY <1>2, <1>6 DEF R

\* The fold over the gateways, as a recursion over a prefix.
LEMMA BuildRuns ==
  ASSUME NEW s, s.gateway \in Seq(Gateways)
  PROVE  \E acc : /\ Accumulates(acc, Len(s.gateway), Seq(AllRows(s)), <<>>, Building(s))
                  /\ acc[Len(s.gateway)] = BuildSummary(s)
<1> DEFINE q == s.gateway
           n == Len(q)
           V == Seq(AllRows(s))
           base == <<>>
           fold == Building(s)
           Body(g, x) == IF x = {} THEN base ELSE g[x \ {Max(x)}] \o Rows(s, q[Max(x)])
           iter == CHOOSE g : g = [x \in SUBSET (DOMAIN q) |-> Body(g, x)]
<1>1. n \in Nat /\ DOMAIN q = 1..n /\ base \in V /\ fold \in [1..n -> [V -> V]]
  <2>1. \A i \in 1..n : q[i] \in ToSet(s.gateway)
    BY DEF ToSet
  <2>2. \A i \in 1..n : Rows(s, q[i]) \in V
    BY <2>1, RowsAre
  <2>3. \A i \in 1..n, v \in V : v \o Rows(s, q[i]) \in V
    BY <2>2
  <2>4. fold \in [1..n -> [V -> V]]
    <3> HIDE DEF V
    <3> QED BY <2>3 DEF Building, V
  <2> QED BY <2>4
<1>2. BuildSummary(s) = iter[DOMAIN q]
  BY Zenon DEF BuildSummary, FoldLeft, MapThenFoldSet
<1>3. \A x \in SUBSET (1..n) : x # {} => Max(x) \in 1..n /\ x \ {Max(x)} \in SUBSET (1..n)
  <2> HIDE DEF n
  <2> QED BY <1>1, GreatestIndex
<1>4. \A i \in 1..n, v \in V : fold[i][v] = v \o Rows(s, q[i])
  BY DEF Building
<1>5. \E g : g = [x \in SUBSET (1..n) |-> Body(g, x)]
  <2> HIDE DEF n, V, fold, base
  <2>1. PICK g : FoldsBy(g, n, V, base, fold)
    BY <1>1, FoldTable
  <2>2. g \in [SUBSET (1..n) -> V]
    BY <2>1 DEF FoldsBy
  <2>3. \A x \in SUBSET (1..n) : g[x] = Body(g, x)
    BY <2>1, <2>2, <1>3, <1>4 DEF FoldsBy
  <2>4. g = [x \in SUBSET (1..n) |-> Body(g, x)]
    <3> HIDE DEF Body
    <3> QED BY <2>2, <2>3
  <2> QED BY <2>4
<1>6. iter = [x \in SUBSET (1..n) |-> Body(iter, x)]
  <2> HIDE DEF Body, n
  <2> QED BY <1>1, <1>5
<1>7. FoldsWithin(iter, n, V, base, fold)
  <2> HIDE DEF iter, n, V, fold, base
  <2> QED BY <1>6, <1>3, <1>4 DEF FoldsWithin
<1>8. \E acc : Accumulates(acc, n, V, base, fold) /\ acc[n] = iter[1..n]
  <2> HIDE DEF iter, n, V, fold, base
  <2> QED BY <1>1, <1>7, FoldSteps
<1> HIDE DEF iter
<1> QED BY <1>1, <1>2, <1>8

Sorted(q) == \A i, j \in DOMAIN q : i < j => Before(q[i], q[j])

\* The rules due at a host by the routes T of a kind.
DueBy(kind, T, gw, l, h) ==
    UNION {Due(kind, r, Declares(r, h)) : r \in {t \in T : routeAttachesTo(t, gw, l)}}

\* A fold over the routes of a kind has every rule due by those that attach.
LEMMA ContributionIs ==
  ASSUME NEW kind, NEW routes \in Seq(Routes), Sorted(routes), NEW gw, NEW l, NEW h
  PROVE  LET b == Contribution(kind, routes, gw, l, h)
         IN  /\ b \in Seq(Rules(kind, routes))
             /\ Matches(b, DueBy(kind, ToSet(routes), gw, l, h))
<1> DEFINE n == Len(routes)
           V == Seq(Rules(kind, routes))
           From(T) == DueBy(kind, T, gw, l, h)
<1>1. PICK acc : /\ Accumulates(acc, n, V, <<>>, Contributing(kind, routes, gw, l, h))
                 /\ acc[n] = Contribution(kind, routes, gw, l, h)
  BY ContributionRuns
<1>2. /\ n \in Nat /\ DOMAIN routes = 1..n /\ acc \in [0..n -> V] /\ acc[0] = <<>>
      /\ \A i \in 1..n : acc[i] = IF routeAttachesTo(routes[i], gw, l)
                                  THEN acc[i - 1] \o AddedOf(kind, routes[i], h) ELSE acc[i - 1]
  <2>1. n \in Nat /\ DOMAIN routes = 1..n /\ acc \in [0..n -> V] /\ acc[0] = <<>>
    BY <1>1 DEF Accumulates
  <2>2. \A i \in 1..n : acc[i] = Contributing(kind, routes, gw, l, h)[i][acc[i - 1]]
    BY <1>1 DEF Accumulates
  <2>3. \A i \in 1..n : acc[i - 1] \in V
    <3> HIDE DEF V
    <3> QED BY <2>1
  <2> QED BY <2>1, <2>2, <2>3 DEF Contributing
<1> HIDE DEF n
<1> DEFINE S == {i \in 0..n : Matches(acc[i], From(Earlier(routes, i + 1)))}
<1>3. 0 \in S
  <2>1. From(Earlier(routes, 0 + 1)) = {}
    BY DEF Earlier, DueBy
  <2>2. Matches(acc[0], From(Earlier(routes, 0 + 1)))
    <3> HIDE DEF From
    <3> QED BY <1>2, <2>1, MatchesNothing
  <2> HIDE DEF From
  <2> QED BY <1>2, <2>2
<1>4. \A i \in 0..(n - 1) : i \in S => i + 1 \in S
  <2> TAKE i \in 0..(n - 1)
  <2> HAVE i \in S
  <2> DEFINE r == routes[i + 1]
             E == Due(kind, r, Declares(r, h))
  <2>1. i + 1 \in 1..n /\ (i + 1) - 1 = i /\ i + 1 \in 0..n /\ i \in 0..n
    BY <1>2
  <2>2. r \in ToSet(routes) /\ r \in Routes
        /\ Earlier(routes, (i + 1) + 1) = Earlier(routes, i + 1) \cup {r}
    BY <2>1, Listed DEF n
  <2>3. CASE routeAttachesTo(r, gw, l)
    <3>1. From(Earlier(routes, (i + 1) + 1)) = From(Earlier(routes, i + 1)) \cup E
      <4> HIDE DEF r
      <4> QED BY <2>2, <2>3 DEF DueBy
    <3>2. /\ acc[i + 1] = acc[i] \o AddedOf(kind, r, h) /\ acc[i] \in V
          /\ AddedOf(kind, r, h) \in V /\ Matches(AddedOf(kind, r, h), E)
      BY <1>2, <2>1, <2>2, <2>3, AddedIs
    <3>3. \A t \in Earlier(routes, i + 1) : t.ns # r.ns \/ t.name # r.name
      <4> TAKE t \in Earlier(routes, i + 1)
      <4>1. PICK m \in 1..i : t = routes[m]
        BY <2>1 DEF Earlier
      <4>2. m \in 1..n /\ m < i + 1
        BY <1>2, <4>1
      <4>3. Before(t, r)
        BY <1>2, <2>1, <4>1, <4>2 DEF Sorted
      <4>4. t.ns \in Nat /\ t.name \in Nat
        <5>1. t \in Routes
          BY <4>1, <4>2 DEF n
        <5> QED BY <5>1 DEF Routes
      <4> HIDE DEF r
      <4> QED BY <4>3, <4>4 DEF Before
    <3>4. From(Earlier(routes, i + 1)) \cap E = {}
      <4> HIDE DEF r
      <4>1. \A t \in Earlier(routes, i + 1) : Due(kind, t, Declares(t, h)) \cap E = {}
        BY <3>3 DEF Due
      <4> HIDE DEF E
      <4> QED BY <4>1 DEF DueBy
    <3>5. Matches(acc[i + 1], From(Earlier(routes, i + 1)) \cup E)
      <4> HIDE DEF r, From, E
      <4> QED BY <3>2, <3>4, MatchesJoined
    <3> HIDE DEF From, r, E
    <3> QED BY <2>1, <3>1, <3>5
  <2>4. CASE ~routeAttachesTo(r, gw, l)
    <3>1. From(Earlier(routes, (i + 1) + 1)) = From(Earlier(routes, i + 1))
      <4> HIDE DEF r
      <4> QED BY <2>2, <2>4 DEF DueBy
    <3>2. acc[i + 1] = acc[i]
      BY <1>2, <2>1, <2>4
    <3> HIDE DEF From, r, E
    <3> QED BY <2>1, <3>1, <3>2
  <2> QED BY <2>3, <2>4
<1>5. 0..n \subseteq S
  <2> HIDE DEF S
  <2> QED BY <1>2, <1>3, <1>4, NumbersByInduction
<1>6. n \in S /\ acc[n] \in V
  <2> HIDE DEF S, V
  <2> QED BY <1>2, <1>5
<1>7. ToSet(routes) = Earlier(routes, n + 1)
  BY Listed DEF n
<1> QED BY <1>1, <1>6, <1>7

\* A snapshot's lists, as the API server keeps them and Fetch sorts them.
Snapshot(s) ==
    /\ s.gateway \in Seq(Gateways) /\ s.policy \in Seq(Policies)
    /\ s.httproute \in Seq(Routes) /\ s.grpcroute \in Seq(Routes)
    /\ Sorted(s.policy) /\ Sorted(s.httproute) /\ Sorted(s.grpcroute)
    /\ \A gw \in ToSet(s.gateway) :
          \A i, j \in DOMAIN gw.status : gw.status[i].name = gw.status[j].name => i = j

\* The code's reading of a reference is what a reference means.
LEMMA CoversIs ==
  ASSUME NEW ref, NEW own, NEW gw, NEW l
  PROVE  Covers(ref, own, gw, l) <=> Means(ref, own, gw, l)
  BY DEF Covers, Means, OwnNamespace

\* The rules due at a host, as the code's reading of the references has them.
LEMMA RulesAtIs ==
  ASSUME NEW s, NEW gw, NEW l, NEW h
  PROVE  RulesAt(s, gw, l, h) = DueBy("HTTPRoute", ToSet(s.httproute), gw, l, h)
                                  \cup DueBy("GRPCRoute", ToSet(s.grpcroute), gw, l, h)
<1> DEFINE Of(kind, routes) ==
              UNION {{<<kind, r.ns, r.name, n - 1, k>> : n \in DOMAIN r.rules, k \in Declares(r, h)} :
                       r \in {t \in ToSet(routes) : Reached(t, gw, l)}}
<1>1. RulesAt(s, gw, l, h) = Of("HTTPRoute", s.httproute) \cup Of("GRPCRoute", s.grpcroute)
  BY DEF RulesAt
<1>2. ASSUME NEW kind, NEW routes
      PROVE  Of(kind, routes) = DueBy(kind, ToSet(routes), gw, l, h)
  <2>1. \A r : routeAttachesTo(r, gw, l) <=> Reached(r, gw, l)
    BY CoversIs DEF routeAttachesTo, Reached
  <2>2. {t \in ToSet(routes) : Reached(t, gw, l)} =
          {t \in ToSet(routes) : routeAttachesTo(t, gw, l)}
    BY <2>1
  <2> QED BY <2>2 DEF DueBy, Due
<1> HIDE DEF Of
<1> QED BY <1>1, <1>2

\* The bucket of a host has the rules due at that host.
LEMMA BucketIs ==
  ASSUME NEW s, Snapshot(s), NEW gw, NEW l, NEW h
  PROVE  LET b == Bucket(s, gw, l, h)
         IN  /\ BucketExact(b, RulesAt(s, gw, l, h))
             /\ b # <<>> <=> RulesAt(s, gw, l, h) # {}
<1> DEFINE x == Contribution("HTTPRoute", s.httproute, gw, l, h)
           y == Contribution("GRPCRoute", s.grpcroute, gw, l, h)
           D == Rules("HTTPRoute", s.httproute)
           E == Rules("GRPCRoute", s.grpcroute)
           S == DueBy("HTTPRoute", ToSet(s.httproute), gw, l, h)
           U == DueBy("GRPCRoute", ToSet(s.grpcroute), gw, l, h)
<1>0. /\ s.httproute \in Seq(Routes) /\ Sorted(s.httproute)
      /\ s.grpcroute \in Seq(Routes) /\ Sorted(s.grpcroute)
  BY DEF Snapshot
<1>1. x \in Seq(D) /\ Matches(x, S)
  BY <1>0, ContributionIs
<1>2. y \in Seq(E) /\ Matches(y, U)
  BY <1>0, ContributionIs
<1>3. S \cap U = {}
  <2>1. \A r, t, J, K : Due("HTTPRoute", r, J) \cap Due("GRPCRoute", t, K) = {}
    BY DEF Due
  <2> QED BY <2>1 DEF DueBy
<1>4. Bucket(s, gw, l, h) = x \o y /\ RulesAt(s, gw, l, h) = S \cup U
  BY RulesAtIs DEF Bucket
<1> HIDE DEF x, y, D, E, S, U
<1>5. Matches(x \o y, S \cup U)
  BY <1>1, <1>2, <1>3, MatchesJoined
<1>6. x \o y \in Seq(D \cup E)
  <2>1. x \in Seq(D \cup E) /\ y \in Seq(D \cup E)
    BY <1>1, <1>2
  <2> QED BY <2>1
<1> QED BY <1>4, <1>5, <1>6, MatchesCounted

\* A snapshot declares finitely many hosts.
LEMMA AllHostsFinite ==
  ASSUME NEW s, Snapshot(s)
  PROVE  IsFiniteSet(AllHosts(s)) /\ AllHosts(s) \subseteq Nat
<1> DEFINE all == ToSet(s.httproute) \cup ToSet(s.grpcroute)
           named == {ToSet(r.hostnames) : r \in all}
<1>1. all \subseteq Routes /\ IsFiniteSet(all)
  <2>1. ToSet(s.httproute) \subseteq Routes /\ ToSet(s.grpcroute) \subseteq Routes
    BY Listed DEF Snapshot
  <2>2. IsFiniteSet(ToSet(s.httproute)) /\ IsFiniteSet(ToSet(s.grpcroute))
    BY ListedFinite DEF Snapshot
  <2> QED BY <2>1, <2>2, FS_Union
<1>2. AllHosts(s) = {CatchAll} \cup UNION named
  BY DEF AllHosts
<1> HIDE DEF all
<1>3. \A r \in all : IsFiniteSet(ToSet(r.hostnames)) /\ ToSet(r.hostnames) \subseteq Nat
  <2> TAKE r \in all
  <2>1. r.hostnames \in Seq(Nat)
    BY <1>1 DEF Routes
  <2> QED BY <2>1, ListedFinite, Listed
<1>4. IsFiniteSet(named)
  <2> DEFINE f == [r \in all |-> ToSet(r.hostnames)]
  <2>1. f \in Surjection(all, named)
    BY DEF Surjection
  <2> HIDE DEF f, named
  <2> QED BY <1>1, <2>1, FS_Surjection
<1>5. IsFiniteSet(UNION named) /\ UNION named \subseteq Nat
  <2>1. \A T \in named : IsFiniteSet(T) /\ T \subseteq Nat
    BY <1>3
  <2> HIDE DEF named
  <2> QED BY <1>4, <2>1, FS_UNION
<1>6. IsFiniteSet({CatchAll}) /\ CatchAll \in Nat
  BY FS_Singleton DEF CatchAll
<1> HIDE DEF named
<1> QED BY <1>2, <1>5, <1>6, FS_Union

\* Under a listener every host with rules, in order.
LEMMA HostsAre ==
  ASSUME NEW s, Snapshot(s), NEW gw, NEW l
  PROVE  LET q == collectHosts(s, gw, l)
         IN  /\ DOMAIN q = 1..Len(q) /\ Len(q) \in Nat
             /\ \A i, j \in DOMAIN q : i < j => HostBefore(q[i].hostname, q[j].hostname)
             /\ {q[i].hostname : i \in DOMAIN q} = {h \in AllHosts(s) : RulesAt(s, gw, l, h) # {}}
             /\ \A i \in DOMAIN q : q[i].hostname \in Nat
                                    /\ q[i].routes = Bucket(s, gw, l, q[i].hostname)
<1> DEFINE all == ToSet(s.httproute) \cup ToSet(s.grpcroute)
           declared == UNION {ToSet(HostsDeclared(r)) : r \in all}
           K == {h \in declared : Bucket(s, gw, l, h) # <<>>}
           keys == InOrder(K, HostBefore)
           q == collectHosts(s, gw, l)
<1>1. q = [i \in DOMAIN keys |-> [hostname |-> keys[i], routes |-> Bucket(s, gw, l, keys[i])]]
  BY DEF collectHosts
<1>7. K = {h \in AllHosts(s) : RulesAt(s, gw, l, h) # {}}
  <2>1. ASSUME NEW h \in declared PROVE h \in AllHosts(s)
    <3>1. PICK r \in all : h \in ToSet(HostsDeclared(r))
      OBVIOUS
    <3>2. h = CatchAll \/ h \in ToSet(r.hostnames)
      BY <3>1 DEF HostsDeclared, ToSet
    <3> QED BY <3>2 DEF AllHosts
  <2>2. ASSUME NEW h, RulesAt(s, gw, l, h) # {} PROVE h \in declared
    <3>1. PICK r \in all : Declares(r, h) # {}
      <4> HIDE DEF declared
      <4>1. \A t, kind : Due(kind, t, {}) = {}
        BY DEF Due
      <4> QED BY <2>2, <4>1, RulesAtIs DEF DueBy
    <3>2. h \in ToSet(HostsDeclared(r))
      <4>1. CASE r.hostnames = <<>>
        <5>1. HostsDeclared(r) = <<CatchAll>> /\ DOMAIN r.hostnames = {}
          BY <4>1 DEF HostsDeclared
        <5>2. h = CatchAll
          BY <3>1, <5>1 DEF Declares
        <5>3. 1 \in DOMAIN HostsDeclared(r) /\ HostsDeclared(r)[1] = CatchAll
          BY <5>1
        <5> QED BY <5>2, <5>3 DEF ToSet
      <4>2. CASE r.hostnames # <<>>
        BY <3>1, <4>2 DEF Declares, HostsDeclared, ToSet
      <4> QED BY <4>1, <4>2
    <3> QED BY <3>1, <3>2
  <2>3. \A h : Bucket(s, gw, l, h) # <<>> <=> RulesAt(s, gw, l, h) # {}
    BY BucketIs
  <2> HIDE DEF declared
  <2> QED BY <2>1, <2>2, <2>3
<1>5. K \in SUBSET Nat /\ IsFiniteSet(K)
  <2>1. K \in SUBSET AllHosts(s)
    BY <1>7
  <2> HIDE DEF K
  <2> QED BY <2>1, AllHostsFinite, FS_Subset
<1>6. keys \in Seq(K) /\ ToSet(keys) = K /\ \A i, j \in DOMAIN keys : i < j => HostBefore(keys[i], keys[j])
  <2> HIDE DEF K
  <2> QED BY <1>5, HostsInOrder
<1> HIDE DEF K, keys, q
<1>8. /\ DOMAIN keys = 1..Len(keys) /\ Len(keys) \in Nat
      /\ \A i \in DOMAIN keys : keys[i] \in K /\ keys[i] \in Nat
  <2>1. keys \in Seq(K)
    BY <1>6
  <2>2. DOMAIN keys = 1..Len(keys) /\ Len(keys) \in Nat /\ \A i \in DOMAIN keys : keys[i] \in K
    BY <2>1
  <2> QED BY <1>5, <2>2
<1>9. /\ DOMAIN q = DOMAIN keys
      /\ \A i \in DOMAIN q : q[i].hostname = keys[i] /\ q[i].routes = Bucket(s, gw, l, keys[i])
  BY <1>1
<1>10. {q[i].hostname : i \in DOMAIN q} = ToSet(keys)
  BY <1>9 DEF ToSet
<1>11. Len(q) = Len(keys)
  BY <1>1, <1>8
<1> QED BY <1>6, <1>7, <1>8, <1>9, <1>10, <1>11 DEF q

\* The settings of a listener are those of the policy that comes first.
LEMMA SettingsAre ==
  ASSUME NEW s, Snapshot(s), NEW gw, NEW l
  PROVE  LET xff == xForwardedForFor(s.policy, gw, l)
         IN  IF \E p \in ToSet(s.policy) : PolicyOf(s, gw, l, p)
             THEN \E p \in ToSet(s.policy) : PolicyOf(s, gw, l, p) /\ xff = p.xff
             ELSE xff = NoSetting
<1> DEFINE q == s.policy
           settles == {i \in DOMAIN q : ctpAppliesTo(q[i], gw, l) /\ q[i].xff # NoSetting}
           candidates == {p \in ToSet(q) :
              p.xff # NoSetting /\ \E i \in DOMAIN extractTargetRefs(p) :
                                     Means(extractTargetRefs(p)[i], p.ns, gw, l)}
<1>1. q \in Seq(Policies) /\ DOMAIN q = 1..Len(q) /\ Len(q) \in Nat /\ Sorted(q)
  BY DEF Snapshot
<1>2. xForwardedForFor(q, gw, l) = IF settles = {} THEN NoSetting ELSE q[Min(settles)].xff
  BY DEF xForwardedForFor
<1>3. \A p : PolicyOf(s, gw, l, p) <=> p \in candidates /\ \A c \in candidates : c # p => Before(p, c)
  BY DEF PolicyOf
<1>4. \A p : ctpAppliesTo(p, gw, l) <=> \E i \in DOMAIN extractTargetRefs(p) :
                                            Means(extractTargetRefs(p)[i], p.ns, gw, l)
  BY CoversIs DEF ctpAppliesTo
<1>5. candidates = {q[i] : i \in settles}
  BY <1>4 DEF ToSet
<1>6. candidates \subseteq ToSet(q) /\ settles \in SUBSET DOMAIN q
  OBVIOUS
<1>7. settles \in SUBSET Nat
  <2> HIDE DEF settles, q
  <2> QED BY <1>1, <1>6
<1> HIDE DEF settles, candidates, q
<1>8. CASE settles = {}
  BY <1>2, <1>3, <1>5, <1>8 DEF q
<1>9. CASE settles # {}
  <2> DEFINE m == Min(settles)
  <2>1. m \in settles /\ \A k \in settles : m <= k
    BY <1>7, <1>9, LeastNumber DEF Min
  <2> HIDE DEF m
  <2>2. \A k \in settles : k # m => Before(q[m], q[k])
    <3> TAKE k \in settles
    <3> HAVE k # m
    <3>1. m < k
      BY <1>7, <2>1
    <3> QED BY <1>1, <1>6, <2>1, <3>1 DEF Sorted
  <2>3. PolicyOf(s, gw, l, q[m])
    BY <1>3, <1>5, <2>1, <2>2
  <2>4. q[m] \in ToSet(q)
    BY <1>5, <1>6, <2>1
  <2>5. xForwardedForFor(q, gw, l) = q[m].xff
    BY <1>2, <1>9 DEF m
  <2> QED BY <2>3, <2>4, <2>5 DEF q
<1> QED BY <1>8, <1>9

\* A listener's row says what it should.
LEMMA RowIs ==
  ASSUME NEW s, Snapshot(s), NEW gw \in ToSet(s.gateway), NEW n \in DOMAIN gw.listeners
  PROVE  LET l == gw.listeners[n]
             row == Rows(s, gw)[n]
         IN  /\ row.gateway = <<gw.ns, gw.name>> /\ row.name = l.name
             /\ row.hosts = collectHosts(s, gw, l)
             /\ RowExact(s, gw, l, row)
<1> DEFINE l == gw.listeners[n]
           row == Rows(s, gw)[n]
           q == collectHosts(s, gw, l)
<1>1. row = [gateway |-> <<gw.ns, gw.name>>, name |-> l.name, port |-> l.port,
             programmed |-> listenerProgrammed(gw, l),
             xff |-> xForwardedForFor(s.policy, gw, l), hosts |-> q]
  BY DEF Rows
<1>2. /\ row.gateway = <<gw.ns, gw.name>> /\ row.name = l.name /\ row.hosts = q
      /\ row.programmed = listenerProgrammed(gw, l) /\ row.xff = xForwardedForFor(s.policy, gw, l)
  BY <1>1
<1> HIDE DEF row
<1>3. gw \in Gateways /\ \A i, j \in DOMAIN gw.status : gw.status[i].name = gw.status[j].name => i = j
  BY DEF ToSet, Snapshot
<1>4. row.programmed = (\E i \in DOMAIN gw.status : gw.status[i].name = l.name
                                                      /\ gw.status[i].programmed)
  <2>1. DOMAIN gw.status = 1..Len(gw.status) /\ Len(gw.status) \in Nat
    BY <1>3 DEF Gateways
  <2>2. \A i \in DOMAIN gw.status : \A j \in 1..i - 1 : j \in DOMAIN gw.status /\ j # i
    BY <2>1
  <2>3. \A i \in DOMAIN gw.status : gw.status[i].name = l.name =>
           \A j \in 1..i - 1 : gw.status[j].name # l.name
    BY <1>3, <2>2
  <2> QED BY <1>2, <2>3 DEF listenerProgrammed
<1>5. IF \E p \in ToSet(s.policy) : PolicyOf(s, gw, l, p)
      THEN \E p \in ToSet(s.policy) : PolicyOf(s, gw, l, p) /\ row.xff = p.xff
      ELSE row.xff = NoSetting
  BY <1>2, SettingsAre
<1> HIDE DEF l, q
<1>6. /\ \A i, j \in DOMAIN q : i < j => HostBefore(q[i].hostname, q[j].hostname)
      /\ {q[i].hostname : i \in DOMAIN q} = {h \in AllHosts(s) : RulesAt(s, gw, l, h) # {}}
      /\ \A i \in DOMAIN q : q[i].hostname \in Nat /\ q[i].routes = Bucket(s, gw, l, q[i].hostname)
  BY HostsAre DEF q
<1>7. \A i, j \in DOMAIN row.hosts : i < j =>
         row.hosts[j].hostname = CatchAll \/ row.hosts[i].hostname < row.hosts[j].hostname
  BY <1>2, <1>6 DEF HostBefore
<1>8. \A i \in DOMAIN row.hosts :
         BucketExact(row.hosts[i].routes, RulesAt(s, gw, l, row.hosts[i].hostname))
  <2> TAKE i \in DOMAIN row.hosts
  <2> DEFINE h == row.hosts[i].hostname
  <2>1. row.hosts[i].routes = Bucket(s, gw, l, h)
    BY <1>2, <1>6
  <2> HIDE DEF h
  <2>2. BucketExact(Bucket(s, gw, l, h), RulesAt(s, gw, l, h))
    BY BucketIs
  <2> QED BY <2>1, <2>2 DEF h
<1>9. {row.hosts[i].hostname : i \in DOMAIN row.hosts} =
        {h \in AllHosts(s) : RulesAt(s, gw, l, h) # {}}
  BY <1>2, <1>6
<1>10. RowExact(s, gw, l, row)
  BY <1>4, <1>5, <1>7, <1>8, <1>9, Zenon DEF RowExact
<1> QED BY <1>2, <1>10 DEF l, q, row

\* The places for a row: a Gateway and one of its listeners.
Places(s, A) == UNION {{<<g, n>> : n \in DOMAIN s.gateway[g].listeners} : g \in A}

\* The places of one gateway's listeners, and how many there are.
LEMMA OnePlace ==
  ASSUME NEW s, NEW g, s.gateway[g] \in Gateways
  PROVE  LET P == {<<g, n>> : n \in DOMAIN s.gateway[g].listeners}
         IN  IsFiniteSet(P) /\ Cardinality(P) = Len(s.gateway[g].listeners)
<1> DEFINE m == Len(s.gateway[g].listeners)
           P == {<<g, n>> : n \in DOMAIN s.gateway[g].listeners}
           f == [n \in 1..m |-> <<g, n>>]
<1>1. m \in Nat /\ DOMAIN s.gateway[g].listeners = 1..m
  BY DEF Gateways
<1> HIDE DEF m
<1>2. f \in Bijection(1..m, P)
  <2>1. f \in [1..m -> P]
    BY <1>1
  <2>2. \A i, j \in 1..m : f[i] = f[j] => i = j
    OBVIOUS
  <2>3. \A t \in P : \E i \in 1..m : f[i] = t
    BY <1>1
  <2> HIDE DEF f, P
  <2> QED BY <2>1, <2>2, <2>3 DEF Bijection, Injection, Surjection, IsInjective
<1>3. IsFiniteSet(1..m) /\ Cardinality(1..m) = m
  BY <1>1, FS_Interval
<1>4. ExistsBijection(1..m, P)
  <2> HIDE DEF f, P
  <2> QED BY <1>2 DEF ExistsBijection
<1> HIDE DEF P
<1>5. IsFiniteSet(P) /\ Cardinality(P) = m
  BY <1>3, <1>4, FS_Bijection
<1> QED BY <1>5 DEF P, m

\* The summary has one row per place, and no other.
LEMMA SummaryHas ==
  ASSUME NEW s, Snapshot(s)
  PROVE  LET q == BuildSummary(s)
         IN  /\ q \in Seq(AllRows(s)) /\ ToSet(q) = AllRows(s)
             /\ Len(q) = Cardinality(Places(s, DOMAIN s.gateway))
<1> DEFINE n == Len(s.gateway)
           V == Seq(AllRows(s))
           Has(i) == UNION {ToSet(Rows(s, gw)) : gw \in Earlier(s.gateway, i + 1)}
<1>0. s.gateway \in Seq(Gateways)
  BY DEF Snapshot
<1>1. PICK acc : Accumulates(acc, n, V, <<>>, Building(s)) /\ acc[n] = BuildSummary(s)
  BY <1>0, BuildRuns
<1>2. /\ n \in Nat /\ DOMAIN s.gateway = 1..n /\ acc \in [0..n -> V] /\ acc[0] = <<>>
      /\ \A i \in 1..n : acc[i] = acc[i - 1] \o Rows(s, s.gateway[i])
  <2>1. n \in Nat /\ DOMAIN s.gateway = 1..n /\ acc \in [0..n -> V] /\ acc[0] = <<>>
    BY <1>0, <1>1 DEF Accumulates
  <2>2. \A i \in 1..n : acc[i] = Building(s)[i][acc[i - 1]]
    BY <1>1 DEF Accumulates
  <2>3. \A i \in 1..n : acc[i - 1] \in V
    <3> HIDE DEF V
    <3> QED BY <2>1
  <2> QED BY <2>1, <2>2, <2>3 DEF Building
<1> HIDE DEF n
<1> DEFINE S == {i \in 0..n : /\ IsFiniteSet(Places(s, 1..i)) /\ Len(acc[i]) = Cardinality(Places(s, 1..i))
                              /\ ToSet(acc[i]) = Has(i)}
<1>3. 0 \in S
  <2>1. 1..0 = {}
    OBVIOUS
  <2>2. Places(s, 1..0) = {}
    BY <2>1 DEF Places
  <2>3. Has(0) = {} /\ ToSet(<<>>) = {} /\ Len(<<>>) = 0
    BY DEF Earlier, ToSet
  <2>4. IsFiniteSet({}) /\ Cardinality({}) = 0
    BY FS_EmptySet
  <2>5. 0 \in 0..n /\ acc[0] = <<>>
    BY <1>2
  <2> HIDE DEF Has
  <2> QED BY <2>2, <2>3, <2>4, <2>5
<1>4. \A i \in 0..(n - 1) : i \in S => i + 1 \in S
  <2> TAKE i \in 0..(n - 1)
  <2> HAVE i \in S
  <2> DEFINE gw == s.gateway[i + 1]
             P == {<<i + 1, m>> : m \in DOMAIN s.gateway[i + 1].listeners}
  <2>1. i + 1 \in 1..n /\ (i + 1) - 1 = i /\ i + 1 \in 0..n /\ i \in 0..n /\ i \in Nat
    BY <1>2
  <2>2. gw \in ToSet(s.gateway) /\ gw \in Gateways
        /\ Earlier(s.gateway, (i + 1) + 1) = Earlier(s.gateway, i + 1) \cup {gw}
    BY <1>0, <2>1, Listed DEF n
  <2>3. acc[i + 1] = acc[i] \o Rows(s, gw) /\ acc[i] \in V /\ Rows(s, gw) \in V
        /\ Len(Rows(s, gw)) = Len(gw.listeners)
    BY <1>0, <1>2, <2>1, <2>2, RowsAre
  <2>4. Has(i + 1) = Has(i) \cup ToSet(Rows(s, gw))
    <3> HIDE DEF gw
    <3> QED BY <2>2
  <2>5. ToSet(acc[i + 1]) = ToSet(acc[i]) \cup ToSet(Rows(s, gw))
    <3> HIDE DEF gw
    <3> QED BY <2>3, JoinedSet
  <2>6. Len(acc[i + 1]) = Len(acc[i]) + Len(gw.listeners) /\ Len(acc[i]) \in Nat /\ Len(gw.listeners) \in Nat
    <3> DEFINE x == acc[i]
               y == Rows(s, gw)
    <3>1. Len(x) \in Nat /\ Len(y) \in Nat /\ Len(x \o y) = Len(x) + Len(y)
      <4>1. x \in Seq(AllRows(s)) /\ y \in Seq(AllRows(s))
        BY <2>3
      <4> HIDE DEF x, y
      <4> QED BY <4>1
    <3> HIDE DEF gw, V
    <3> QED BY <2>3, <3>1
  <2>7. IsFiniteSet(P) /\ Cardinality(P) = Len(gw.listeners)
    BY <2>2, OnePlace
  <2>8. Places(s, 1..(i + 1)) = Places(s, 1..i) \cup P /\ Places(s, 1..i) \cap P = {}
    <3>1. \A g : g \in 1..(i + 1) <=> g \in 1..i \/ g = i + 1
      BY <2>1
    <3>2. i + 1 \notin 1..i
      BY <2>1
    <3> QED BY <3>1, <3>2 DEF Places
  <2>9. /\ IsFiniteSet(Places(s, 1..(i + 1)))
        /\ Cardinality(Places(s, 1..(i + 1))) = Cardinality(Places(s, 1..i)) + Len(gw.listeners)
    <3> HIDE DEF P, gw
    <3>1. Cardinality(Places(s, 1..i) \cap P) = 0
      BY <2>8, FS_EmptySet
    <3> DEFINE Q == Places(s, 1..i)
    <3>2. IsFiniteSet(Q) /\ Cardinality(Q) \in Nat
      BY FS_CardinalityType
    <3> HIDE DEF Q
    <3>3. IsFiniteSet(Q \cup P) /\ Cardinality(Q \cup P) = Cardinality(Q) + Cardinality(P) - Cardinality(Q \cap P)
      BY <2>7, <3>2, FS_Union
    <3>4. Cardinality(Q \cap P) = 0
      BY <3>1 DEF Q
    <3>5. Cardinality(Q \cup P) = Cardinality(Q) + Len(gw.listeners)
      BY <2>6, <2>7, <3>2, <3>3, <3>4
    <3> QED BY <2>8, <3>3, <3>5 DEF Q
  <2> HIDE DEF gw, P, Has
  <2> QED BY <2>1, <2>4, <2>5, <2>6, <2>9
<1>5. 0..n \subseteq S
  <2> HIDE DEF S
  <2> QED BY <1>2, <1>3, <1>4, NumbersByInduction
<1>6. n \in S /\ acc[n] \in V
  <2> HIDE DEF S, V
  <2> QED BY <1>2, <1>5
<1>7. Has(n) = AllRows(s)
  <2>1. ToSet(s.gateway) = Earlier(s.gateway, n + 1)
    BY <1>0, Listed DEF n
  <2> QED BY <2>1 DEF AllRows
<1> HIDE DEF Has
<1> QED BY <1>1, <1>2, <1>6, <1>7

\* The summary of a snapshot has one exact row per listener.
LEMMA SummaryIs ==
  ASSUME NEW s, Snapshot(s)
  PROVE  IsExact(s, BuildSummary(s))
<1> DEFINE all == UNION {{<<g, n>> : n \in DOMAIN s.gateway[g].listeners} : g \in DOMAIN s.gateway}
           q == BuildSummary(s)
<1>1. Len(q) = Cardinality(all) /\ ToSet(q) = AllRows(s)
  BY SummaryHas DEF Places
<1>2. ASSUME NEW x \in all
      PROVE  LET gw == s.gateway[x[1]]  l == gw.listeners[x[2]]
             IN \E r \in ToSet(q) :
                  r.gateway = <<gw.ns, gw.name>> /\ r.name = l.name /\ RowExact(s, gw, l, r)
  <2>1. PICK g \in DOMAIN s.gateway : \E n \in DOMAIN s.gateway[g].listeners : x = <<g, n>>
    OBVIOUS
  <2>2. PICK n \in DOMAIN s.gateway[g].listeners : x = <<g, n>>
    BY <2>1
  <2> DEFINE gw == s.gateway[g]
             r == Rows(s, gw)[n]
  <2>3. gw \in ToSet(s.gateway)
    BY DEF ToSet
  <2>4. /\ r.gateway = <<gw.ns, gw.name>> /\ r.name = gw.listeners[n].name
        /\ RowExact(s, gw, gw.listeners[n], r)
    <3> HIDE DEF gw
    <3>1. n \in DOMAIN gw.listeners
      BY DEF gw
    <3> QED BY <2>3, <3>1, RowIs
  <2>5. r \in ToSet(q)
    <3>1. n \in DOMAIN Rows(s, gw)
      BY DEF Rows
    <3>2. r \in ToSet(Rows(s, gw))
      BY <3>1 DEF ToSet
    <3> HIDE DEF q, gw, r
    <3> QED BY <1>1, <2>3, <3>2 DEF AllRows
  <2> HIDE DEF r, q
  <2> QED BY <2>2, <2>4, <2>5
<1> HIDE DEF all, q
<1> QED BY <1>1, <1>2 DEF IsExact, all, q

\* gateway hostnames leaves out no host that is served.
LEMMA HostnamesAre ==
  ASSUME NEW s, Snapshot(s)
  PROVE  Complete(s, Hostnames(BuildSummary(s)))
<1> DEFINE rows == ToSet(BuildSummary(s))
           H == (UNION {{row.hosts[i].hostname : i \in DOMAIN row.hosts} : row \in rows}) \ {CatchAll}
           HostsAt(gw, l) == {h \in AllHosts(s) : RulesAt(s, gw, l, h) # {}}
           hosts == Hostnames(BuildSummary(s))
<1>1. rows = AllRows(s)
  BY SummaryHas
<1>2. ASSUME NEW gw \in ToSet(s.gateway), NEW n \in DOMAIN gw.listeners
      PROVE  LET row == Rows(s, gw)[n]
             IN {row.hosts[i].hostname : i \in DOMAIN row.hosts} = HostsAt(gw, gw.listeners[n])
  <2>1. RowExact(s, gw, gw.listeners[n], Rows(s, gw)[n])
    BY RowIs
  <2> QED BY <2>1 DEF RowExact
<1>3. ASSUME NEW row \in rows
      PROVE  \E gw \in ToSet(s.gateway) : \E n \in DOMAIN gw.listeners : row = Rows(s, gw)[n]
  <2>1. PICK gw \in ToSet(s.gateway) : row \in ToSet(Rows(s, gw))
    BY <1>1 DEF AllRows
  <2>2. DOMAIN Rows(s, gw) = DOMAIN gw.listeners
    BY DEF Rows
  <2> QED BY <2>1, <2>2 DEF ToSet
<1>4. ASSUME NEW gw \in ToSet(s.gateway), NEW n \in DOMAIN gw.listeners PROVE Rows(s, gw)[n] \in rows
  <2>1. n \in DOMAIN Rows(s, gw)
    BY DEF Rows
  <2>2. Rows(s, gw)[n] \in ToSet(Rows(s, gw))
    BY <2>1 DEF ToSet
  <2> HIDE DEF rows
  <2> QED BY <1>1, <2>2 DEF AllRows
<1> HIDE DEF rows
<1>5. H = {h \in AllHosts(s) \ {CatchAll} :
             \E gw \in ToSet(s.gateway) : \E l \in ToSet(gw.listeners) : RulesAt(s, gw, l, h) # {}}
  <2>1. ASSUME NEW h \in H
        PROVE  /\ h \in AllHosts(s) \ {CatchAll}
               /\ \E gw \in ToSet(s.gateway) : \E l \in ToSet(gw.listeners) : RulesAt(s, gw, l, h) # {}
    <3>1. PICK row \in rows : h \in {row.hosts[i].hostname : i \in DOMAIN row.hosts}
      OBVIOUS
    <3>2. PICK gw \in ToSet(s.gateway) : \E n \in DOMAIN gw.listeners : row = Rows(s, gw)[n]
      BY <1>3
    <3>3. PICK n \in DOMAIN gw.listeners : row = Rows(s, gw)[n]
      BY <3>2
    <3>4. h \in HostsAt(gw, gw.listeners[n])
      BY <1>2, <3>1, <3>3
    <3>5. gw.listeners[n] \in ToSet(gw.listeners)
      BY DEF ToSet
    <3> QED BY <3>4, <3>5
  <2>2. ASSUME NEW h \in AllHosts(s) \ {CatchAll}, NEW gw \in ToSet(s.gateway),
               NEW l \in ToSet(gw.listeners), RulesAt(s, gw, l, h) # {}
        PROVE  h \in H
    <3>1. PICK n \in DOMAIN gw.listeners : l = gw.listeners[n]
      BY DEF ToSet
    <3> DEFINE row == Rows(s, gw)[n]
    <3>2. h \in {row.hosts[i].hostname : i \in DOMAIN row.hosts}
      BY <1>2, <2>2, <3>1
    <3>3. row \in rows
      BY <1>4
    <3> HIDE DEF row
    <3> QED BY <3>2, <3>3
  <2> HIDE DEF H
  <2> QED BY <2>1, <2>2
<1>6. IsFiniteSet(H) /\ H \in SUBSET Nat
  <2>1. H \in SUBSET AllHosts(s)
    BY <1>5
  <2> HIDE DEF H
  <2> QED BY <2>1, AllHostsFinite, FS_Subset
<1>7. hosts = InOrder(H, <)
  BY DEF Hostnames, rows
<1>8. /\ hosts \in Seq(H) /\ ToSet(hosts) = H
      /\ \A j, k \in DOMAIN hosts : j < k => hosts[j] < hosts[k]
  <2> HIDE DEF H
  <2> QED BY <1>6, <1>7, NumbersInOrder
<1> HIDE DEF H, hosts
<1> QED BY <1>5, <1>8 DEF Complete, hosts

\* What Fetch has read of a kind, sorted.
LEMMA SliceIs ==
  ASSUME NEW k \in Kinds, NEW X, \A x \in X : x.ns \in Nat /\ x.name \in Nat,
         Tables[k] \in Seq(Seq(X)), NEW read, read[k] \in 0..Len(Tables[k])
  PROVE  /\ Slice(read, k) \in Seq(X) /\ Sorted(Slice(read, k))
         /\ \A x \in ToSet(Slice(read, k)) :
               \E n \in DOMAIN Tables[k] : x \in ToSet(Tables[k][n])
<1>1. CASE read[k] = 0
  BY <1>1 DEF Slice, Sorted, ToSet
<1>2. CASE read[k] # 0
  <2> DEFINE list == Tables[k][read[k]]
             q == SortedByName(list)
  <2>1. read[k] \in DOMAIN Tables[k] /\ list \in Seq(X)
    BY <1>2
  <2>2. \A i, j \in DOMAIN list : list[i].ns = list[j].ns /\ list[i].name = list[j].name => i = j
    BY <2>1, ObjectsAssumption
  <2>3. Slice(read, k) = q
    BY <1>2 DEF Slice
  <2>4. /\ q \in Seq(X) /\ ToSet(q) = ToSet(list)
        /\ \A i, j \in DOMAIN q : i < j => Before(q[i], q[j])
    <3> HIDE DEF list
    <3> QED BY <2>1, <2>2, SortedIs
  <2> HIDE DEF q
  <2> QED BY <2>1, <2>3, <2>4 DEF Sorted
<1> QED BY <1>1, <1>2

\* Every read is a snapshot: sorted lists of distinct objects.
LEMMA SlicesAre ==
  ASSUME NEW r \in Reads
  PROVE  Snapshot(Slices[r])
<1> DEFINE s == Slices[r]
<1>1. s = [k \in Kinds |-> Slice(r, k)]
  BY DEF Slices
<1>2. /\ s.gateway = Slice(r, "gateway") /\ s.httproute = Slice(r, "httproute")
      /\ s.grpcroute = Slice(r, "grpcroute") /\ s.policy = Slice(r, "policy")
  BY <1>1 DEF Kinds
<1> HIDE DEF s
<1>3. /\ r["gateway"] \in 0..Len(Tables["gateway"]) /\ r["httproute"] \in 0..Len(Tables["httproute"])
      /\ r["grpcroute"] \in 0..Len(Tables["grpcroute"]) /\ r["policy"] \in 0..Len(Tables["policy"])
  BY DEF Reads
<1>4. /\ Tables["gateway"] \in Seq(Seq(Gateways)) /\ Tables["httproute"] \in Seq(Seq(Routes))
      /\ Tables["grpcroute"] \in Seq(Seq(Routes)) /\ Tables["policy"] \in Seq(Seq(Policies))
  BY ObjectsAssumption
<1>5. /\ \A x \in Gateways : x.ns \in Nat /\ x.name \in Nat
      /\ \A x \in Routes : x.ns \in Nat /\ x.name \in Nat
      /\ \A x \in Policies : x.ns \in Nat /\ x.name \in Nat
  BY DEF Gateways, Routes, Policies
<1>6. "gateway" \in Kinds /\ "httproute" \in Kinds /\ "grpcroute" \in Kinds /\ "policy" \in Kinds
  BY DEF Kinds
<1>7. /\ s.gateway \in Seq(Gateways)
      /\ \A gw \in ToSet(s.gateway) : \E n \in DOMAIN Tables["gateway"] : gw \in ToSet(Tables["gateway"][n])
  BY <1>2, <1>3, <1>4, <1>5, <1>6, SliceIs
<1>8. s.httproute \in Seq(Routes) /\ Sorted(s.httproute)
  BY <1>2, <1>3, <1>4, <1>5, <1>6, SliceIs
<1>9. s.grpcroute \in Seq(Routes) /\ Sorted(s.grpcroute)
  BY <1>2, <1>3, <1>4, <1>5, <1>6, SliceIs
<1>10. s.policy \in Seq(Policies) /\ Sorted(s.policy)
  BY <1>2, <1>3, <1>4, <1>5, <1>6, SliceIs
<1>11. \A gw \in ToSet(s.gateway) :
          \A i, j \in DOMAIN gw.status : gw.status[i].name = gw.status[j].name => i = j
  BY <1>7, ObjectsAssumption
<1> QED BY <1>7, <1>8, <1>9, <1>10, <1>11 DEF Snapshot, s

\* The summary of every read is exact and complete.
LEMMA ReadsAreExact ==
  ASSUME NEW r \in Reads
  PROVE  Exact[r] /\ NoneMissing[r]
<1>1. Snapshot(Slices[r])
  BY SlicesAre
<1>2. Summaries[r] = BuildSummary(Slices[r])
  BY DEF Summaries
<1>3. IsExact(Slices[r], Summaries[r]) /\ Complete(Slices[r], Hostnames(Summaries[r]))
  BY <1>1, <1>2, SummaryIs, HostnamesAre
<1> QED BY <1>3 DEF Exact, NoneMissing

\* What a command has read is one of the reads.
LEMMA IsRead ==
  ASSUME NEW read \in [Kinds -> Nat], \A k \in Kinds : read[k] = 0 \/ read[k] \in DOMAIN Tables[k]
  PROVE  read \in Reads
<1>1. \A k \in Kinds : read[k] \in 0..Len(Tables[k])
  <2>1. \A k \in Kinds : Tables[k] \in Seq(Seq(Gateways)) \/ Tables[k] \in Seq(Seq(Routes))
                                              \/ Tables[k] \in Seq(Seq(Policies))
    BY ObjectsAssumption DEF Kinds
  <2>2. \A k \in Kinds : Len(Tables[k]) \in Nat /\ DOMAIN Tables[k] = 1..Len(Tables[k])
    BY <2>1
  <2> QED BY <2>2
<1>2. /\ read["gateway"] \in 0..Len(Tables["gateway"]) /\ read["httproute"] \in 0..Len(Tables["httproute"])
      /\ read["grpcroute"] \in 0..Len(Tables["grpcroute"]) /\ read["policy"] \in 0..Len(Tables["policy"])
  BY <1>1 DEF Kinds
<1> QED BY <1>2 DEF Reads, Kinds

--------------------------------------------------------------------------------
(* The summaries that commands print *)

\* Every printed summary has one row per listener, in it every rule that
\* attaches, under each host of its route as often as the route names it, and
\* the settings of the policy that comes first, and gateway hostnames leaves no
\* host out: for all lists with one object of a name and however a gateway's
\* objects change between two reads (summary.go, BuildSummary; hostnames.go).
THEOREM SummaryIsExact == Spec => []SummaryExact
<1>1. CommandInv => SummaryExact
  <2> SUFFICES ASSUME CommandInv, NEW i \in Slots, Printed(i)
               PROVE  Exact[cmd[i].read] /\ NoneMissing[cmd[i].read]
    BY DEF SummaryExact
  <2>1. cmd[i] \in Slot /\ Flow(i)
    BY InSlot DEF CommandInv
  <2>2. /\ cmd[i].read \in [Kinds -> Nat]
        /\ \A k \in Kinds : cmd[i].read[k] = 0 \/ cmd[i].read[k] \in DOMAIN Tables[k]
    BY <2>1 DEF Slot, Flow
  <2>3. cmd[i].read \in Reads
    BY <2>2, IsRead
  <2> QED
    BY <2>3, ReadsAreExact
<1> QED
  BY <1>1, CommandsAreAccounted, PTL
================================================================================
