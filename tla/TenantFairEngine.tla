--------------------------- MODULE TenantFairEngine ---------------------------
(***************************************************************************)
(* TenantFairEngine of engines/tenant.py: PrefixCachedEngine that admits   *)
(* from the tenant furthest behind its share, and charges for all that has *)
(* been admitted at the start of _prefill.                                 *)
(*                                                                         *)
(* Weights are whole numbers here, so that deficits compare exactly; the   *)
(* anonymous tenant is a tenant like any other.                            *)
(***************************************************************************)
EXTENDS PrefixEngine

CONSTANTS Tenants, TenantOf, Weight

ASSUME TenantAssumption == /\ TenantOf \in [Requests -> Tenants]
                           /\ Weight \in [Tenants -> Nat \ {0}]

VARIABLES
    served,     \* tokens of work charged to each tenant so far
    last,       \* history: the latest charge to each tenant
    mark        \* history: served as it was when a tenant that waits began to

tenantVars == <<prefixVars, served, last, mark>>

Nothing == [t \in Tenants |-> 0]

TenantInit == /\ PrefixInit
              /\ served = Nothing /\ last = Nothing
              /\ mark = [t \in Tenants |-> Nothing]

--------------------------------------------------------------------------------

\* _deficit(t) < _deficit(u)
Behind(t, u) == served[t] * Weight[u] < served[u] * Weight[t]

WaitingTenant(i) == TenantOf[waiting[i]]

\* A variant that keeps the last position of each tenant instead of the first.
Tails == {i \in 1 .. Len(waiting) :
              \A j \in i + 1 .. Len(waiting) : WaitingTenant(j) # WaitingTenant(i)}

\* heads: the first position of each tenant in the queue.
Heads == {i \in 1 .. Len(waiting) :
              \A j \in 1 .. i - 1 : WaitingTenant(j) # WaitingTenant(i)}

\* A variant without the override: first come, first served.
FirstInLine == 1

\* _next_waiting(): the least deficit, and the earliest head among equals.
NextOfTenants ==
    CHOOSE i \in Heads : \A j \in Heads :
        /\ ~Behind(WaitingTenant(j), WaitingTenant(i))
        /\ j < i => Behind(WaitingTenant(i), WaitingTenant(j))

Cost(r) == Len(Prompt[r]) + MaxTokens[r]

Charge(t) == MapThenSumSet(Cost, {r \in Range(admitted) : TenantOf[r] = t})

\* _prefill() charges, for a resumed request again, and goes on as inherited.
ChargeAdmitted ==
    /\ StopAdmitting(NextOfTenants)
    /\ served' = [t \in Tenants |-> served[t] + Charge(t)]
    /\ last' = [t \in Tenants |-> IF Charge(t) > 0 THEN Charge(t) ELSE last[t]]

Waits(t) == \E i \in 1 .. Len(waiting) : WaitingTenant(i) = t

Marked == mark' = [t \in Tenants |-> IF ~Waits(t)' THEN Nothing
                                     ELSE IF Waits(t) THEN mark[t] ELSE served]

TenantStep ==
    /\ \/ /\ \/ BeginStep /\ UNCHANGED cacheVars
             \/ AdmitAt(NextOfTenants) /\ UNCHANGED cacheVars
             \/ EvictFor(NextOfTenants)
             \/ PrefixWork
             \/ PrefixEmit
          /\ UNCHANGED <<served, last>>
       \/ ChargeAdmitted
    /\ Marked

TenantAddRequest(r) == /\ AddRequest(r)
                       /\ UNCHANGED <<cacheVars, served, last>>
                       /\ Marked

TenantNext == TenantStep \/ \E r \in Requests : TenantAddRequest(r)

TenantSpec == TenantInit /\ [][TenantNext]_tenantVars

\* Every driver steps as long as has_work().
TenantFairSpec == TenantSpec /\ WF_tenantVars(TenantStep)

--------------------------------------------------------------------------------
(***************************************************************************)
(* What fairness between tenants must get right.                           *)
(***************************************************************************)

TenantTypeOK == /\ PrefixTypeOK
                /\ served \in [Tenants -> Nat] /\ last \in [Tenants -> Nat]
                /\ mark \in [Tenants -> [Tenants -> Nat]]

\* Within a tenant the order is still arrival order, as _next_waiting() says,
\* through preemption and readmission.
TenantOrder ==
    \A i, j \in 1 .. Len(Line) : i < j /\ TenantOf[Line[i]] = TenantOf[Line[j]] =>
        \E k, l \in 1 .. Len(arrival) : k < l /\ arrival[k] = Line[i] /\ arrival[l] = Line[j]

\* The queue stays in order within each tenant, and deficits are counts of work.
TenantsInOrder == TenantTypeOK /\ TenantOrder

\* Whoever is charged while another tenant waits was, before its latest charge,
\* not ahead of that tenant: a burst gains one batch on those who wait, and no
\* more, whatever it was charged and however often it was preempted.
LagBounded ==
    \A t, u \in Tenants : Waits(t) /\ served[u] > mark[t][u] =>
        (served[u] - last[u]) * Weight[t] <= served[t] * Weight[u]

================================================================================
