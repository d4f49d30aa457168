------------------------------- MODULE Engine -------------------------------
(***************************************************************************)
(* One extension in its engine (crates/extension/): loading and            *)
(* configuring a guest, and concurrent invocations of it under a budget of *)
(* instructions, a memory cap and a wall-clock deadline.  A WASM guest runs*)
(* in its one store, under a lock, and is dropped at the deadline where it *)
(* awaits; a Lua guest runs on a blocking thread that outlives its caller. *)
(* The guest side is the shim of crates/extguest/ and, for typed calls, the*)
(* provider of extensions/openai/ and the decoding of llm.rs.              *)
(*                                                                         *)
(* Instructions and bytes are counted in units: one unit is what a step of *)
(* a guest, or a buffer, takes.                                            *)
(***************************************************************************)
EXTENDS Naturals, FiniteSets

CONSTANTS Guest,           \* the packages a run loads
          Call, Loader,    \* callers; Loader is the engine's own configure call
          Upstream,        \* what an HTTP exchange may come to
          None, Forever,   \* Forever: the work of a guest that loops
          Junk,            \* a setting of the wrong shape
          Budget,          \* wasm_fuel_per_call, lua_instructions_per_call
          MemoryCap        \* wasm_max_memory_bytes

VARIABLES guest,           \* the package
          state,           \* how far load is, then "served" or "failed"
          settings,        \* the settings the guest was configured with, or None
          allow,           \* http_allow_hosts: a set of hosts, or None for all
          memory,          \* what the guest has allocated
          lock,            \* who holds the store (wasm), or the Lua state in a call
          fuel,            \* the fuel of the store
          hook,            \* whose counter the instruction hook counts (lua)
          call

instance == <<guest, state, settings, allow>>
vars == <<instance, memory, lock, fuel, hook, call>>

AllCalls == Call \union {Loader}

\* late: the deadline has passed.  fired: the counter of the hook that the call
\* armed.  asked: the host it named and what came of it.
NewCall == [step |-> "new", payload |-> None, late |-> FALSE, todo |-> None, fired |-> 0,
            asked |-> None, output |-> None, result |-> None]

Init ==
  /\ guest \in Guest /\ state = "verify" /\ settings = None /\ allow = None
  /\ memory = 0 /\ lock = None /\ fuel = 0 /\ hook = None
  /\ call = [c \in AllCalls |-> NewCall]
-----------------------------------------------------------------------------
(* Loading.                                                                *)

Loaded(s) == state' = s /\ UNCHANGED <<guest, settings, memory, lock, hook, call>>

\* check_imports and check_exports: only lycoris.log, and lycoris.http with the
\* capability; the exports of the ABI.
check_imports(g) == g.imports \subseteq {"log"} \union (g.capabilities \intersect {"http"})
check_exports(g) == g.exports

\* load_instance, up to the first guest code.
Verify ==
  /\ state = "verify" /\ guest.engine = "wasm"
  /\ Loaded(IF guest.intact /\ check_imports(guest) /\ check_exports(guest) THEN "start" ELSE "failed")
  /\ UNCHANGED <<allow, fuel>>

\* The same of a Lua guest, which has no HTTP.
VerifyScript ==
  /\ state = "verify" /\ guest.engine = "lua"
  /\ Loaded(IF guest.intact /\ "http" \notin guest.capabilities THEN "start" ELSE "failed")
  /\ UNCHANGED <<allow, fuel>>

\* instantiate_async runs the start code of a WASM guest, on the first fuel.
Instantiate ==
  /\ state = "start" /\ guest.engine = "wasm"
  /\ fuel' = Budget - 1 /\ Loaded("policy") /\ UNCHANGED allow

\* build_state evaluates the chunk under the budget and looks for its entry.
build_state ==
  /\ state = "start" /\ guest.engine = "lua"
  /\ Loaded(IF guest.chunk = Forever \/ ~ guest.exports THEN "failed" ELSE "configure")
  /\ UNCHANGED <<allow, fuel>>

\* merge_settings: the node's own settings override the manifest's by key.
merge_settings(base, local) ==
  [k \in DOMAIN base \union DOMAIN local |-> IF k \in DOMAIN local THEN local[k] ELSE base[k]]

Settings == merge_settings(guest.base, guest.local)

\* Mutant: only the manifest restricts the hosts.
parse_http_allow_hosts_Base(s) ==
  IF "http_allow_hosts" \in DOMAIN guest.base THEN guest.base["http_allow_hosts"] ELSE None

\* parse_http_allow_hosts: None allows every host, Junk is not a list.
parse_http_allow_hosts(s) == IF "http_allow_hosts" \in DOMAIN s THEN s["http_allow_hosts"] ELSE None

Policy ==
  /\ state = "policy"
  /\ LET hosts == parse_http_allow_hosts(Settings)
     IN  /\ allow' = IF hosts = Junk THEN None ELSE hosts
         /\ Loaded(IF hosts = Junk THEN "failed" ELSE "configure")
  /\ UNCHANGED fuel

\* is_method_not_found: the text of a script error reaches the host, that of an
\* error a shim traps on only its log.
is_method_not_found(g) == g.configure = "unknown" /\ ~ g.shim

\* Mutant: a guest is served although it failed to configure.
Servable_Always(g, result) == TRUE

\* configure_instance: whether the guest may serve.
Servable(g, result) == result = "Ok" \/ (result = "Guest" /\ is_method_not_found(g))

Configured ==
  /\ state = "configure" /\ call[Loader].result # None
  /\ state' = IF Servable(guest, call[Loader].result) THEN "served" ELSE "failed"
  /\ UNCHANGED <<guest, settings, allow, memory, lock, fuel, hook, call>>
-----------------------------------------------------------------------------
(* Invocations.                                                            *)

Set(c, r) == call' = [call EXCEPT ![c] = r]

End(r, result) == [r EXCEPT !.step = "done", !.result = IF @ = None THEN result ELSE @]

Work(c) == IF c = Loader THEN 1 ELSE guest.work

\* invoke: a payload that is not JSON is refused.
invoke(c) ==
  /\ call[c].step = "new" /\ IF c = Loader THEN state = "configure" ELSE state = "served"
  /\ \E payload \in IF c = Loader THEN {"object"} ELSE {"object", "other", "no_json"} :
       Set(c, IF payload = "no_json" THEN End(call[c], "InvalidPayload")
              ELSE [call[c] EXCEPT !.step = IF guest.engine = "wasm" THEN "lock" ELSE "arm",
                                   !.payload = payload, !.todo = Work(c)])
  /\ UNCHANGED <<instance, memory, lock, fuel, hook>>

\* Mutant: the budget of a call is what the last one left.
set_fuel_Once == fuel

set_fuel == Budget

\* invoke_inner takes the lock, sets the fuel, and places the method and the
\* payload with the guest's allocator, which never frees.
Enter(c) ==
  /\ call[c].step = "lock" /\ lock = None
  /\ fuel' = set_fuel
  /\ IF memory + 2 > MemoryCap
       THEN Set(c, End(call[c], "Guest")) /\ UNCHANGED <<memory, lock>>
       ELSE Set(c, [call[c] EXCEPT !.step = "run"]) /\ memory' = memory + 2 /\ lock' = c
  /\ UNCHANGED <<instance, hook>>

\* Settings::from_json of the provider: it cannot do without a key.
from_json(s) == "key" \in DOMAIN s

\* dispatch of the shim, or the entry of a script: what the guest answers.  "trap"
\* stands for an error or a panic.
Returns(c) ==
  IF c # Loader THEN guest.output
  ELSE IF guest.configure = "known" /\ from_json(Settings) THEN "json" ELSE "trap"

\* chat_to_openai, embed_to_openai: a request to the host, if the payload is one.
to_openai(c, r) == guest.host # None /\ c # Loader /\ r.asked = None /\ r.payload = "object"

\* A unit of the guest's code; it returns when its work is done.
Runs(c, r) ==
  IF r.todo = Forever THEN r
  ELSE IF r.todo > 1 THEN [r EXCEPT !.todo = @ - 1]
  ELSE IF to_openai(c, r)
         THEN [r EXCEPT !.step = "http", !.asked = [host |-> guest.host, reply |-> None]]
  ELSE [r EXCEPT !.step = "return", !.output = Returns(c)]

\* The guest runs until its fuel is used up.
Run(c) ==
  /\ call[c].step = "run" /\ guest.engine = "wasm"
  /\ IF fuel = 0 THEN Set(c, End(call[c], "Fuel")) /\ lock' = None /\ UNCHANGED fuel
     ELSE Set(c, Runs(c, call[c])) /\ fuel' = fuel - 1 /\ UNCHANGED lock
  /\ UNCHANGED <<instance, memory, hook>>

\* execute: a host that is not allowed is not asked; an exchange ends in an answer
\* or in an error document.
execute(host) ==
  IF allow = None \/ host \in allow THEN Upstream ELSE {[kind |-> "host_not_allowed", status |-> 0]}

\* run_http_import: the exchange, and the response in a buffer of the guest.
run_http_import(c) ==
  /\ call[c].step = "http"
  /\ \E u \in execute(call[c].asked.host) :
       IF memory + 1 > MemoryCap
         THEN Set(c, End(call[c], "Guest")) /\ lock' = None /\ UNCHANGED memory
         ELSE /\ Set(c, [call[c] EXCEPT !.step = "run", !.todo = 1, !.asked.reply = u])
              /\ memory' = memory + 1 /\ UNCHANGED lock
  /\ UNCHANGED <<instance, fuel, hook>>

\* What the engine makes of the guest's answer.
Outcome(output) ==
  CASE output = "json" -> "Ok"
    [] output = "junk" -> "InvalidPayload"
    [] output = "out_of_bounds" -> "Engine"
    [] OTHER -> "Guest"

\* SETTINGS of the provider guest; a Lua script keeps its own.
Settled(c) ==
  settings' = IF c = Loader /\ call[c].output = "json" THEN Settings ELSE settings

\* The rest of invoke_inner; the store is unlocked.
Leave(c) ==
  /\ call[c].step = "return" /\ guest.engine = "wasm"
  /\ Set(c, End(call[c], Outcome(call[c].output))) /\ lock' = None
  /\ Settled(c)
  /\ UNCHANGED <<guest, state, allow, memory, fuel, hook>>

\* Mutant: invocations have no deadline.
Expires_Never(r) == FALSE

\* The deadline ends a call where it awaits: a lock, an exchange, or a thread.
Expires(r) ==
  r.late /\ r.result = None
    /\ IF guest.engine = "wasm" THEN r.step \in {"lock", "http"} ELSE r.step \notin {"new", "done"}

\* Mutant: a WASM call goes on in the background after its deadline.
TimeOut_Detached(c) ==
  /\ Expires(call[c]) /\ Set(c, [call[c] EXCEPT !.result = "Timeout"])
  /\ UNCHANGED <<instance, memory, lock, fuel, hook>>

\* timeout: a WASM call is dropped with its lock, a Lua thread goes on.
TimeOut(c) ==
  /\ Expires(call[c])
  /\ Set(c, IF guest.engine = "wasm" THEN End(call[c], "Timeout") ELSE [call[c] EXCEPT !.result = "Timeout"])
  /\ lock' = IF guest.engine = "wasm" /\ lock = c THEN None ELSE lock
  /\ UNCHANGED <<instance, memory, fuel, hook>>

DeadlinePasses(c) ==
  /\ call[c].step \notin {"new", "done"} /\ ~ call[c].late
  /\ Set(c, [call[c] EXCEPT !.late = TRUE])
  /\ UNCHANGED <<instance, memory, lock, fuel, hook>>
-----------------------------------------------------------------------------
(* A Lua call, on its thread.  Every operation on the Lua state takes its  *)
(* lock, entry_fn.call for as long as the script runs.                     *)

\* arm_instruction_hook replaces whatever hook there is.
arm_instruction_hook(c) ==
  /\ call[c].step = "arm" /\ lock = None
  /\ hook' = c /\ Set(c, [call[c] EXCEPT !.step = "call", !.fired = 0])
  /\ UNCHANGED <<instance, memory, lock, fuel>>

Called(c) ==
  /\ call[c].step = "call" /\ lock = None
  /\ lock' = c /\ Set(c, [call[c] EXCEPT !.step = "run"])
  /\ UNCHANGED <<instance, memory, fuel, hook>>

\* The hook counts for the call that armed it; without a hook nothing counts.
Script(c) ==
  /\ call[c].step = "run" /\ guest.engine = "lua"
  /\ IF hook # None /\ call[hook].fired >= Budget
       THEN call' = [call EXCEPT ![c].step = "return", ![c].output = "trap", ![hook].fired = Budget + 1]
       ELSE call' = [d \in AllCalls |->
                       LET r == IF d = c THEN Runs(c, call[c]) ELSE call[d]
                       IN  IF d = hook THEN [r EXCEPT !.fired = @ + 1] ELSE r]
  /\ UNCHANGED <<instance, memory, lock, fuel, hook>>

\* classify_script_error: a budget error is one by the caller's own counter.
classify_script_error(r) ==
  IF r.output = "trap" THEN IF r.fired > Budget THEN "BudgetExceeded" ELSE "Guest"
  ELSE Outcome(r.output)

Returned(c) ==
  /\ call[c].step = "return" /\ guest.engine = "lua" /\ lock = c
  /\ lock' = None /\ Set(c, [call[c] EXCEPT !.step = "remove"])
  /\ Settled(c)
  /\ UNCHANGED <<guest, state, allow, memory, fuel, hook>>

remove_hook(c) ==
  /\ call[c].step = "remove" /\ lock = None
  /\ hook' = None /\ Set(c, End(call[c], classify_script_error(call[c])))
  /\ UNCHANGED <<instance, memory, lock, fuel>>
-----------------------------------------------------------------------------
(* The provider guest and the facade: what a typed call comes to.          *)

Error(status) == [error |-> TRUE, status |-> status]
Response == [error |-> FALSE, status |-> 0]


provider_error_document(reply) == Error(reply.status)

\* openai_to_chat, openai_to_embed and openai_to_models: an answer that is not 2xx
\* becomes an error document; one that breaks the contract is refused.
openai_to(reply) ==
  CASE reply.status \notin 200 .. 299 -> provider_error_document(reply)
    [] reply.kind = "off_contract" -> None
    [] OTHER -> Response

\* execute of the provider: the host's own error documents carry no status, a
\* refused answer is reported with the status it came with.
Document(reply) ==
  IF reply.kind \notin {"answer", "off_contract"} THEN Error(0)
  ELSE IF openai_to(reply) = None THEN Error(reply.status) ELSE openai_to(reply)

\* chat, embed and models: without a request there is no exchange.
Wire(r) == IF r.asked = None THEN Error(0) ELSE Document(r.asked.reply)

\* invoke_wire with from_wire_error and from_wire.
Typed(r) ==
  IF r.result # "Ok" THEN [kind |-> "Extension", status |-> 0]
  ELSE [kind |-> IF Wire(r).error THEN "Provider" ELSE "Ok", status |-> Wire(r).status]
-----------------------------------------------------------------------------
Steps(c) ==
  \/ invoke(c) \/ Enter(c) \/ Run(c) \/ run_http_import(c) \/ Leave(c) \/ TimeOut(c)
  \/ arm_instruction_hook(c) \/ Called(c) \/ Script(c) \/ Returned(c) \/ remove_hook(c)

Loading == Verify \/ VerifyScript \/ Instantiate \/ build_state \/ Policy \/ Configured

Next == Loading \/ \E c \in AllCalls : Steps(c) \/ DeadlinePasses(c)

\* Threads run on, deadlines pass.  An upstream may never answer, callers need
\* not call.
Progress ==
  \/ Loading \/ invoke(Loader)
  \/ \E c \in AllCalls :
       \/ DeadlinePasses(c) \/ TimeOut(c) \/ Enter(c) \/ Run(c) \/ Leave(c)
       \/ Called(c) \/ Script(c) \/ Returned(c) \/ remove_hook(c)

Spec == Init /\ [][Next]_vars /\ WF_vars(Progress)
-----------------------------------------------------------------------------
\* Every call has the whole budget: a WASM guest that needs no more than the
\* budget never runs out of fuel, whatever ran in its store before.
FuelFresh ==
  guest.engine = "wasm" => \A c \in AllCalls : call[c].result = "Fuel" => call[c].todo = Forever

\* After a WASM call was answered, with a timeout too, no guest code runs for it.
NoOrphans ==
  guest.engine = "wasm" /\ lock # None => call[lock].result = None

\* What serves has its settings, or never heard of configure.
ServesConfigured ==
  state = "served" => settings = Settings \/ guest.configure = "unknown"

\* A guest reaches only the hosts the resolved settings allow.
EgressAllowed ==
  \A c \in Call :
    /\ call[c].asked # None /\ call[c].asked.reply # None
    /\ call[c].asked.reply.kind # "host_not_allowed" /\ "http_allow_hosts" \in DOMAIN Settings
    => Settings["http_allow_hosts"] # Junk /\ call[c].asked.host \in Settings["http_allow_hosts"]

\* The typed caller is told the truth: success only of a successful answer, the
\* upstream's own status for an answer that failed, and a status only where
\* there was one.
StatusTrue ==
  guest.host # None => \A c \in Call : call[c].result # None =>
    LET told  == Typed(call[c])
        reply == IF call[c].asked = None THEN None ELSE call[c].asked.reply
    IN  /\ told.kind = "Ok" => reply # None /\ reply.kind = "answer" /\ reply.status \in 200 .. 299
        /\ told.kind = "Provider" /\ told.status # 0 => reply # None /\ told.status = reply.status
        /\ told.kind = "Provider" /\ reply # None /\ reply.kind = "answer" => told.status = reply.status

\* Every call is answered, although guests loop and upstreams are silent.
Answered == \A c \in AllCalls : call[c].step # "new" => call[c].result # None
AnswersGiven == <>[]Answered
=============================================================================
