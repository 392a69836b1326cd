--------------------------- MODULE DeviceListView --------------------------
(***************************************************************************)
(* The dashboard's device table (frontend/src/components/DeviceList.tsx    *)
(* and services/api.ts) together with the API it asks.                     *)
(*                                                                         *)
(* Mounting the component runs its effect: it fetches the device list and  *)
(* then, for each device, balance and metrics at once.  Leaving the page   *)
(* cancels the effect; its answers still arrive.  React's StrictMode       *)
(* (main.tsx) runs the effect, cancels it and runs it again at once, in    *)
(* one component: then two effects fetch for the same table.               *)
(***************************************************************************)
EXTENDS DeviceApi

CONSTANT MaxEffects     \* bound: effects that are ever run

Effect == 1..MaxEffects

\* Ids of the requests an effect makes.
ViewRequest == Effect \X {"devices", "balance", "metrics"} \X Device

ASSUME ViewAssumption ==
    /\ Device # {}
    /\ MaxEffects \in Nat
    /\ ViewRequest \subseteq Request

VARIABLES
    effects,    \* number of effects run so far
    effect,     \* effect -> pc, cancelled, component, list
    mounted,    \* whether the component is on the page
    state       \* its React state

view == <<effects, effect, mounted, state>>
allvars == <<vars, view>>

AnyDevice == CHOOSE d \in Device : TRUE
ListOf(e) == <<e, "devices", AnyDevice>>

Fresh == [devices |-> << >>, balances |-> << >>, series |-> << >>,
          error |-> FALSE, loading |-> TRUE]

ViewInit ==
    /\ Init
    /\ effects = 0
    /\ effect = << >>
    /\ mounted = FALSE
    /\ state = Fresh

----------------------------------------------------------------------------
(* Mounting.                                                               *)

\* The effect's body up to its first await, for the component of effect k.
RunEffect(k) ==
    LET e == effects + 1 IN
    /\ effects < MaxEffects
    /\ effects' = e
    /\ effect' = Append(IF k = e THEN effect
                        ELSE [effect EXCEPT ![effects].cancelled = TRUE],
                        [pc |-> "list", cancelled |-> FALSE, component |-> k,
                         devices |-> << >>])
    /\ Get(ListOf(e), Handler("devices", AnyDevice, AnyTime, "day"))
    /\ UNCHANGED <<world, up>>

\* Bound: the API is used by the page or by another client.  Requests of the
\* two share nothing but the cache, which neither changes.
OneClient == DOMAIN request \cup DOMAIN answer \subseteq ViewRequest

Mount ==
    /\ ~mounted
    /\ OneClient
    /\ mounted' = TRUE
    /\ state' = Fresh
    /\ RunEffect(effects + 1)

\* StrictMode, before anything has arrived.
StrictRemount ==
    /\ mounted
    /\ effect[effects].component = effects
    /\ effect[effects].pc = "list"
    /\ RunEffect(effects)
    /\ UNCHANGED <<mounted, state>>

Unmount ==
    /\ mounted
    /\ mounted' = FALSE
    /\ effect' = [effect EXCEPT ![effects].cancelled = TRUE]
    /\ UNCHANGED <<vars, effects, state>>

----------------------------------------------------------------------------
(* The effect's continuations.                                             *)

\* if (cancelled) return
\* Mutant: nobody looks.
LiveAlways(e) == TRUE

Live(e) == ~effect[e].cancelled

\* setDevices, setError, ...: to a component that is gone they do nothing.
SetState(e, s) ==
    state' = IF /\ Live(e)
                /\ mounted
                /\ effect[e].component = effect[effects].component
             THEN s ELSE state

Goto(e, pc) == effect' = [effect EXCEPT ![e].pc = pc]

\* .catch and .finally of a list that could not be fetched
\* Mutant: only the success path ends loading.
ErrorStateLoading(s) == [s EXCEPT !.error = TRUE]

ErrorState(s) == [s EXCEPT !.error = TRUE, !.loading = FALSE]

ListFails(e) ==
    /\ effect[e].pc = "list"
    /\ ListOf(e) \in Answers("failed")
    /\ SetState(e, ErrorState(state))
    /\ Goto(e, "done")
    /\ UNCHANGED <<vars, effects, mounted>>

\* The list arrives: a cancelled effect stops, another asks for details.
ListArrives(e) ==
    /\ effect[e].pc = "list"
    /\ ListOf(e) \in Answers("devices")
    /\ LET list == answer[ListOf(e)].devices
           asked == {<<e, kind, d>> : kind \in {"balance", "metrics"},
                                      d \in DOMAIN list} IN
       IF Live(e)
       THEN /\ SetState(e, [state EXCEPT !.devices = list])
            /\ effect' = [effect EXCEPT ![e].pc = "details",
                                        ![e].devices = list]
            /\ request' = IF ~up THEN request
                          ELSE [r \in DOMAIN request \cup asked |->
                                  IF r \in asked
                                  THEN Handler(r[2], r[3], AnyTime, "day")
                                  ELSE request[r]]
            /\ answer' = IF up THEN answer
                         ELSE [r \in DOMAIN answer \cup asked |->
                                 IF r \in asked THEN Failed ELSE answer[r]]
            /\ UNCHANGED up
       ELSE /\ Goto(e, "done")
            /\ UNCHANGED <<state, request, answer, up>>
    /\ UNCHANGED <<world, effects, mounted>>

\* balMap and seriesMap: a fetch that failed became null, or an empty series.
BalMap(e) == [d \in DOMAIN effect[e].devices |-> answer[<<e, "balance", d>>]]

SeriesMap(e) ==
    [d \in DOMAIN effect[e].devices |->
        LET a == answer[<<e, "metrics", d>>] IN
        IF a = Failed THEN {} ELSE a.series]

\* Promise.all: every device's balance and metrics have come.
AllCame(e) ==
    \A d \in DOMAIN effect[e].devices, kind \in {"balance", "metrics"} :
        <<e, kind, d>> \in DOMAIN answer

DetailsArrive(e) ==
    /\ effect[e].pc = "details"
    /\ AllCame(e)
    /\ SetState(e, [state EXCEPT !.balances = BalMap(e),
                                 !.series = SeriesMap(e),
                                 !.loading = FALSE])
    /\ Goto(e, "done")
    /\ UNCHANGED <<vars, effects, mounted>>

----------------------------------------------------------------------------

EffectStep(e) == ListFails(e) \/ ListArrives(e) \/ DetailsArrive(e)

ViewNext ==
    \/ (World \/ Server) /\ UNCHANGED view
    \/ /\ effects = 0
       /\ \E r \in Request \ ViewRequest : Ask(r)
       /\ UNCHANGED view
    \/ Mount \/ StrictRemount \/ Unmount
    \/ \E e \in 1..effects : EffectStep(e)

ViewSpec == ViewInit /\ [][ViewNext]_allvars

\* Queries are answered, or the connection or the process ends; arrived
\* answers are handled.
ViewFairSpec ==
    /\ ViewSpec
    /\ \A r \in ViewRequest :
          WF_allvars(r \in DOMAIN request /\ HandlerStep(r) /\ UNCHANGED view)
    /\ \A e \in Effect : WF_allvars(e <= effects /\ EffectStep(e))

----------------------------------------------------------------------------
(* The table.                                                              *)

\* if (error) ..., if (loading) ...: otherwise the table.
Shown == mounted /\ ~state.error /\ ~state.loading

\* A row of the table.  A cell without a value is {}.
\* Mutant: without an answer, the count of records stands in for latest_seq.
ShownRowGuessed(d) ==
    LET info == state.devices[d]
        bal == GetOr(state.balances, d, Failed) IN
    [balance |-> IF bal = Failed THEN {} ELSE bal.on_chain_balance,
     units |-> IF bal = Failed THEN info.total_units ELSE bal.total_units,
     billed |-> IF bal = Failed THEN info.total_cost ELSE bal.total_billed,
     latest_seq |-> {IF bal = Failed THEN info.event_count ELSE bal.latest_seq},
     records |-> info.event_count]

ShownRow(d) ==
    LET info == state.devices[d]
        bal == GetOr(state.balances, d, Failed) IN
    IF bal = Failed
    THEN [balance |-> {}, units |-> info.total_units,
          billed |-> info.total_cost, latest_seq |-> {},
          records |-> info.event_count]
    ELSE [balance |-> bal.on_chain_balance, units |-> bal.total_units,
          billed |-> bal.total_billed, latest_seq |-> {bal.latest_seq},
          records |-> info.event_count]

\* series[device] ?? []
SeriesOf(d) == GetOr(state.series, d, {})

----------------------------------------------------------------------------
(* Properties                                                              *)

\* A shown row makes sense across its three requests, made at different times
\* while readings arrive: the count of records is not above the latest
\* sequence number, a device that has one has a balance, and the totals of
\* balance and series are not below those of the list they replace.
RowsConsistent ==
    Shown =>
        \A d \in DOMAIN state.devices :
            LET info == state.devices[d]
                row == ShownRow(d) IN
            /\ info.total_units <= row.units
            /\ info.total_cost <= row.billed
            /\ \A seq \in row.latest_seq :
                  row.records <= seq /\ row.balance # {}
            /\ SeriesOf(d) # {} =>
                  info.total_units <=
                      Total([s \in SeriesOf(d) |-> s.total_units])

\* What is on the page is what its latest effect fetched, from its first
\* request on and for as long as the page stays: no list, no detail and no
\* failure of an effect that was cancelled shows up in the table.
NothingStale ==
    mounted =>
        LET e == effect[effects]
            listed == [Fresh EXCEPT !.devices = e.devices]
        IN /\ e.pc = "list" => state = Fresh
           /\ e.pc = "details" => state = listed
           /\ e.pc = "done" =>
                 \/ state = ErrorState(Fresh)
                 \/ state = [listed EXCEPT !.balances = BalMap(effects),
                                           !.series = SeriesMap(effects),
                                           !.loading = FALSE]

\* The page does not stay at "Loading devices", also when the backend crashes
\* under the requests.
LoadingEnds == (mounted /\ state.loading) ~> (~mounted \/ ~state.loading)

----------------------------------------------------------------------------
(* What makes the safety properties inductive.                             *)

\* Only the latest effect is not cancelled, and only on a page that is there.
EffectsInv ==
    /\ effects \in 0..MaxEffects
    /\ mounted \in BOOLEAN
    /\ effect \in [1..effects -> Range(effect)]
    /\ mounted => effects > 0 /\ Live(effects)
    /\ \A e \in 1..effects :
          /\ DOMAIN effect[e] = {"pc", "cancelled", "component", "devices"}
          /\ effect[e].pc \in {"list", "details", "done"}
          /\ effect[e].cancelled \in BOOLEAN
          /\ Live(e) => mounted /\ e = effects
    /\ \A list \in {effect[e].devices : e \in 1..effects} : ListInv(list)

\* Details are asked for once the list has come, for a device in it.
Asked(r) ==
    r[2] # "devices" => /\ r[1] \in 1..effects
                        /\ effect[r[1]].pc # "list"
                        /\ r[3] \in DOMAIN effect[r[1]].devices

Listed(r) == effect[r[1]].devices[r[3]]

\* A request of the page is what its id says, and what comes back for a device
\* is not below its line in the list that was there before.
RequestLink(r, q) ==
    /\ Asked(r)
    /\ q.kind = r[2] /\ q.device = r[3] /\ q.window = AnyTime
    /\ q.kind = "balance" /\ q.pc = "second" => Below(Listed(r), q.rows)

AnswerLink(r, a) ==
    /\ Asked(r)
    /\ a.kind \in {"failed", r[2]}
    /\ a.kind = "balance" =>
          /\ Listed(r).total_units <= a.total_units
          /\ Listed(r).total_cost <= a.total_billed
          /\ Listed(r).event_count <= a.latest_seq
          /\ a.on_chain_balance # {}
    /\ a.kind = "metrics" =>
          Listed(r).total_units <= Total([s \in a.series |-> s.total_units])

LinksInv ==
    /\ \A r \in ViewRequest \cap DOMAIN request : RequestLink(r, request[r])
    /\ \A r \in ViewRequest \cap DOMAIN answer : AnswerLink(r, answer[r])

\* A request is under way or answered; the answers a table was made of stay.
AnswersInv ==
    /\ DOMAIN request \cap DOMAIN answer = {}
    /\ mounted /\ effect[effects].pc = "done" /\ ~state.error =>
          AllCame(effects)

StateInv ==
    /\ DOMAIN state = DOMAIN Fresh
    /\ AnswersInv
    /\ NothingStale
    /\ RowsConsistent

ViewInv == ApiInv /\ EffectsInv /\ LinksInv /\ StateInv

============================================================================
