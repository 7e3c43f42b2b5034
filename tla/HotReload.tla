------------------------------ MODULE HotReload ------------------------------
(***************************************************************************)
(* gateway.State.Reload (internal/gateway/state.go) on top of the requests *)
(* of Failover: a new generation of key managers is built from the current *)
(* one, provider by provider, while requests keep using the current one;   *)
(* then the service pointer moves.  State.mu is held throughout, so no     *)
(* request takes a snapshot in between.                                    *)
(***************************************************************************)
EXTENDS Failover

VARIABLES
    building,   \* Reload holds State.mu and is building generation service + 1
    copied,     \* providers whose cooldowns have been copied
    merged,     \* providers whose counters have been copied too
    late        \* history: <<p, k, m>> cooled on the old pool after the copy

reloadVars == <<building, copied, merged, late>>
allVars == <<vars, reloadVars>>

Successor == service + 1

HotTypeOK ==
    /\ TypeOK
    /\ building \in BOOLEAN
    /\ copied \in SUBSET Providers
    /\ merged \in SUBSET copied
    /\ (~building => copied = {})
    /\ late \in SUBSET (Providers \X Keys \X Models)

HotInit ==
    /\ Init
    /\ building = FALSE
    /\ copied = {}
    /\ merged = {}
    /\ late = {}

(* PUT /admin/api/config and the like reach Reload with any configuration. *)
BeginReload(c) ==
    /\ ~building
    /\ Successor \in Gens
    /\ building' = TRUE
    /\ copied' = {}
    /\ merged' = {}
    /\ late' = {}
    /\ config' = [config EXCEPT ![Successor] = c]
    /\ UNCHANGED <<cool, keyRR, used, errs, memberRR, service, req>>

CopyCooldowns(p) ==
    /\ building
    /\ merged = copied
    /\ p \notin copied
    /\ MergeCooldowns(service, Successor, p,
                      KeysOf[config[service]][p], KeysOf[config[Successor]][p])
    /\ copied' = copied \cup {p}
    /\ UNCHANGED <<memberRR, service, config, req, building, merged, late>>

CopyCounters(p) ==
    /\ p \in copied \ merged
    /\ MergeCounters(service, Successor, p,
                     KeysOf[config[service]][p], KeysOf[config[Successor]][p])
    /\ merged' = merged \cup {p}
    /\ UNCHANGED <<memberRR, service, config, req, building, copied, late>>

(* The pointer moves; late is read by the properties of this step.         *)
Install ==
    /\ building
    /\ merged = Providers
    /\ service' = Successor
    /\ building' = FALSE
    /\ copied' = {}
    /\ merged' = {}
    /\ late' = {}
    /\ UNCHANGED <<cool, keyRR, used, errs, memberRR, config, req>>

(* The report logger, a payload script or the MCP gateway is refused: the  *)
(* error returns before the first manager is built, or after the last.     *)
ReloadFails ==
    /\ building
    /\ copied = {} \/ merged = Providers
    /\ Discard(Successor)
    /\ building' = FALSE
    /\ copied' = {}
    /\ merged' = {}
    /\ late' = {}
    /\ UNCHANGED <<memberRR, service, config, req>>

(* A request step; taking the snapshot waits for State.mu.                 *)
RequestStep(r) ==
    /\ \/ ~building /\ Accept(r)
       \/ Proceed(r)
    /\ late' = IF req[r].pc = "cool" /\ req[r].gen = service /\ Provider(r) \in copied
               THEN late \cup {<<Provider(r), req[r].key, Model(r)>>} ELSE late
    /\ UNCHANGED <<building, copied, merged>>

HotNext ==
    \/ Tick /\ UNCHANGED reloadVars
    \/ \E r \in Requests : RequestStep(r)
    \/ \E c \in Configs : BeginReload(c)
    \/ \E p \in Providers : CopyCooldowns(p) \/ CopyCounters(p)
    \/ Install
    \/ ReloadFails

HotSpec == HotInit /\ [][HotNext]_allVars

(* The scheduler owes a reload nothing; it runs the handlers, as in Spec.  *)
HotFairSpec == HotSpec /\ Fairness

----------------------------------------------------------------------------
(* Properties.                                                             *)

(* A reload does not set cooling keys free: a key that both configurations *)
(* list and that cools when the pointer moves cools just as long in the    *)
(* new pool, unless it was cooled again after the copy was taken.          *)
CooldownsSurviveReload ==
    [][service' # service =>
         \A p \in Providers, k \in Keys, m \in Models :
            (/\ Listed(k, KeysOf[config[service]][p])
             /\ Listed(k, KeysOf[config[service']][p])
             /\ <<p, k, m>> \notin late)
            => cool'[service'][p][k][m] = cool[service][p][k][m]]_allVars

(* A key starts out cooling in a new pool only if it was cooling before.   *)
NoInventedCooldowns ==
    [][service' # service =>
         \A p \in Providers, k \in Keys, m \in Models :
            cool'[service'][p][k][m] > 0 =>
                /\ Listed(k, KeysOf[config[service']][p])
                /\ (cool[service][p][k][m] > 0 \/ <<p, k, m>> \in late)]_allVars
=============================================================================
