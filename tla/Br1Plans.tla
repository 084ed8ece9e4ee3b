------------------------------- MODULE Br1Plans -------------------------------
(***************************************************************************)
(* The way of a BR1 run to its start: web/providers.py, the language-model *)
(* profiles and their keys, two JSON files that every request reads and    *)
(* replaces whole without a lock; llm/structured_output.py, the adapter    *)
(* that sends a key; and web/app.py, which previews a plan, lets the       *)
(* operator confirm it with a token and starts a run that is bound to it.  *)
(*                                                                         *)
(* A request is a thread of the server.  A profile is its digest, which    *)
(* covers the endpoint.  A key is the number of the request that brought   *)
(* it; what stood in the settings while that request ran is kept beside,   *)
(* as history.  The decision provider of a runtime profile may compile     *)
(* intents itself, as br1_profile's does, or leave that to the web.        *)
(***************************************************************************)
EXTENDS Naturals, FiniteSets

CONSTANTS
  Requests,
  Refs,       \* profile_ref
  Profiles,   \* digests of the profiles an operator may save
  Runtimes,   \* runtime profiles with the workflow "br1"
  Compilers,  \* those whose decision provider has compile_intent
  Goals,
  Intents,    \* what a model may make of a goal
  MaxEdits,   \* bound: changes of the settings
  MaxPlans,   \* bound: previews and starts
  Absent

ASSUME PlansAssumption ==
  /\ MaxEdits \in Nat /\ MaxPlans \in Nat
  /\ Compilers \subseteq Runtimes
  /\ Absent \notin Profiles \cup Intents \cup Goals \cup Runtimes

VARIABLES
  profiles,   \* provider_profiles.json
  secrets,    \* provider_secrets.json: a key and the profile it is bound to
  previews,   \* _intent_previews: token -> plan
  request,    \* each thread's place and local variables
  runs,       \* history: the metadata of every run started
  keys,       \* history: for which reference each key came, and what stood there
  sent,       \* history: the keys sent, to which profile's endpoint
  edits, plans

settings == <<profiles, secrets>>
vars == <<profiles, secrets, previews, request, runs, keys, sent, edits, plans>>

-----------------------------------------------------------------------------

Tokens == 1..MaxPlans
Keys == 1..MaxEdits
\* by: the profile whose model answered.
Parsed == [intent : Intents, by : Profiles]
Plan == [runtime : Runtimes, goal : Goals, ref : Refs, bound : Profiles, parsed : Parsed]
Run == [runtime : Runtimes, goal : Goals, ref : Refs, bound : Profiles, parsed : Parsed,
        token : {0} \cup Tokens]

File == [Refs -> Profiles \cup {Absent}]
Secret == [key : Keys, bound : Profiles]
SecretsFile == [Refs -> Secret \cup {Absent}]
\* stood: the profiles under the reference from the arrival of the request with the
\* key until set_secret looks.
Origin == [ref : Refs \cup {Absent}, stood : SUBSET Profiles]
Sent == [key : Keys, ref : Refs, to : Profiles]
Requesting ==
  [op : {"none", "save", "key", "forget", "test", "preview", "start"},
   at : {"idle", "view", "read", "write", "credential", "adapter", "send", "fetch", "pop", "done"},
   ref : Refs \cup {Absent}, runtime : Runtimes \cup {Absent}, goal : Goals \cup {Absent},
   token : {0} \cup Tokens,
   key : {0} \cup Keys,                 \* the key to save
   new : Profiles \cup {Absent},        \* the profile to save, or the key's
   file : File \cup SecretsFile \cup {Absent},  \* the file as it was read
   bound : Profiles \cup {Absent},      \* the profile the credential was checked for
   adapter : Profiles \cup {Absent},    \* the profile inside the adapter
   parsed : Parsed \cup {Absent}]
NoRequest == [op |-> "none", at |-> "idle", ref |-> Absent, runtime |-> Absent, goal |-> Absent,
              token |-> 0, key |-> 0, new |-> Absent, file |-> Absent, bound |-> Absent,
              adapter |-> Absent, parsed |-> Absent]

Init ==
  /\ profiles = [p \in Refs |-> Absent] /\ secrets = [p \in Refs |-> Absent]
  /\ previews = [t \in {} |-> Absent]
  /\ request = [q \in Requests |-> NoRequest]
  /\ keys = [k \in Keys |-> [ref |-> Absent, stood |-> {}]]
  /\ runs = {} /\ sent = {} /\ edits = 0 /\ plans = 0

At(q, op, at) == request[q].op \in op /\ request[q].at = at
Set(q, r) == request' = [request EXCEPT ![q] = r]
Leave(q) == Set(q, NoRequest)
Begin(q, r) == request[q].at = "idle" /\ Set(q, r)

-----------------------------------------------------------------------------
(* The settings *)

Present(x) == {x} \ {Absent}

BeginEdit(q, op, p, new) ==
  /\ Begin(q, [NoRequest EXCEPT !.op = op, !.ref = p, !.new = new, !.at = "read"])
  /\ edits < MaxEdits /\ edits' = edits + 1
  /\ UNCHANGED <<settings, previews, runs, keys, sent, plans>>

\* A key arrives without a word of the profile it is for, only with the reference.
BeginKey(q, p) ==
  /\ edits < MaxEdits /\ edits' = edits + 1
  /\ Begin(q, [NoRequest EXCEPT !.op = "key", !.ref = p, !.key = edits + 1, !.at = "view"])
  /\ keys' = [keys EXCEPT ![edits + 1] =
                [ref |-> p, stood |-> Present(profiles[p])]]
  /\ UNCHANGED <<settings, previews, runs, sent, plans>>

\* set_secret looks at the profile first; the key, if it is a proper one, will be
\* bound to what it finds.
ViewProfile(q) ==
  /\ At(q, {"key"}, "view")
  /\ LET p == request[q].ref
     IN \/ Leave(q)
        \/ /\ profiles[p] # Absent
           /\ Set(q, [request[q] EXCEPT !.new = profiles[p], !.at = "read"])
  /\ UNCHANGED <<settings, previews, runs, keys, sent, edits, plans>>

\* _read_profiles or _read_secrets: the whole file.  A key that is not there need
\* not be removed.
ReadFile(q) ==
  /\ At(q, {"save", "key", "forget"}, "read")
  /\ IF request[q].op = "forget" /\ secrets[request[q].ref] = Absent
     THEN Leave(q)
     ELSE Set(q, [request[q] EXCEPT !.file = IF request[q].op = "save" THEN profiles ELSE secrets,
                                    !.at = "write"])
  /\ UNCHANGED <<settings, previews, runs, keys, sent, edits, plans>>

\* What stands from now on is noted with the keys set_secret has not looked for.
Noted(new) ==
  [k \in Keys |->
    LET coming == {q \in Requests : At(q, {"key"}, "view") /\ request[q].key = k}
    IN [keys[k] EXCEPT !.stood = @ \cup UNION {Present(new[request[q].ref]) : q \in coming}]]

\* upsert_profile: the file that was read, with this profile in it; a key is left
\* alone, and no longer fits.
SaveProfile(q) ==
  /\ At(q, {"save"}, "write")
  /\ profiles' = [request[q].file EXCEPT ![request[q].ref] = request[q].new]
  /\ keys' = Noted(profiles')
  /\ Leave(q)
  /\ UNCHANGED <<secrets, previews, runs, sent, edits, plans>>

\* set_secret ends: the file that was read, with the key and the profile it saw.
SaveKey(q) ==
  /\ At(q, {"key"}, "write")
  /\ secrets' = [request[q].file EXCEPT ![request[q].ref] =
                   [key |-> request[q].key, bound |-> request[q].new]]
  /\ Leave(q)
  /\ UNCHANGED <<profiles, previews, runs, keys, sent, edits, plans>>

RemoveKey(q) ==
  /\ At(q, {"forget"}, "write")
  /\ secrets' = [request[q].file EXCEPT ![request[q].ref] = Absent]
  /\ Leave(q)
  /\ UNCHANGED <<profiles, previews, runs, keys, sent, edits, plans>>

-----------------------------------------------------------------------------
(* The model: test_connection, and the intent of a preview or a start *)

BeginTest(q, p) ==
  /\ Begin(q, [NoRequest EXCEPT !.op = "test", !.ref = p, !.at = "read"])
  /\ plans < MaxPlans /\ plans' = plans + 1
  /\ UNCHANGED <<settings, previews, runs, keys, sent, edits>>

BeginPlan(q, op, x, p, g, t) ==
  /\ Begin(q, [NoRequest EXCEPT !.op = op, !.runtime = x, !.ref = p, !.goal = g, !.token = t,
                                !.at = "read"])
  /\ plans < MaxPlans /\ plans' = plans + 1
  /\ UNCHANGED <<settings, previews, runs, keys, sent, edits>>

\* get_profile: the profile, then, in another file, the key.
BindProfile(q) ==
  /\ At(q, {"test", "preview", "start"}, "read")
  /\ LET p == request[q].ref
     IN IF profiles[p] = Absent THEN Leave(q)
        ELSE Set(q, [request[q] EXCEPT !.bound = profiles[p], !.at = "credential"])
  /\ UNCHANGED <<settings, previews, runs, keys, sent, edits, plans>>

\* _credential_configured.
Fits(p, profile) == secrets[p] # Absent /\ secrets[p].bound = profile

CheckCredential(q) ==
  /\ At(q, {"test", "preview", "start"}, "credential")
  /\ IF Fits(request[q].ref, request[q].bound)
     THEN Set(q, [request[q] EXCEPT !.at = IF request[q].token = 0 THEN "adapter" ELSE "fetch"])
     ELSE Leave(q)
  /\ UNCHANGED <<settings, previews, runs, keys, sent, edits, plans>>

\* _provider_for_binding: the profile just read is the one the request is bound to.
ProviderForBinding(q, profile) == profile = request[q].bound

\* create_intent_provider reads the profile again.  compile_intent compares it with
\* the one the request is bound to; without compile_intent, and in a test of the
\* connection, nobody does.
CreateAdapter(q) ==
  /\ At(q, {"test", "preview", "start"}, "adapter")
  /\ LET now == profiles[request[q].ref]
     IN IF now = Absent \/ (request[q].runtime \in Compilers /\ ~ProviderForBinding(q, now))
        THEN Leave(q)
        ELSE Set(q, [request[q] EXCEPT !.adapter = now, !.at = "send"])
  /\ UNCHANGED <<settings, previews, runs, keys, sent, edits, plans>>

Bug_KeyOfReference(profile, p) ==
  IF secrets[p] = Absent THEN {} ELSE {[key |-> secrets[p].key, ref |-> p, to |-> profile]}

\* resolve_secret: the key is read at the last moment and only if it is this profile's.
KeySent(profile, p) ==
  IF Fits(p, profile) THEN {[key |-> secrets[p].key, ref |-> p, to |-> profile]} ELSE {}

\* _request: the call goes out without a key if there is none; it may fail or its
\* answer be refused.
Send(q) ==
  /\ At(q, {"test", "preview", "start"}, "send")
  /\ sent' = sent \cup KeySent(request[q].adapter, request[q].ref)
  /\ \/ Leave(q)
     \/ /\ request[q].op # "test"
        /\ \E i \in Intents :
             Set(q, [request[q] EXCEPT !.parsed = [intent |-> i, by |-> request[q].adapter],
                                       !.at = "done"])
  /\ UNCHANGED <<settings, previews, runs, keys, edits, plans>>

-----------------------------------------------------------------------------
(* Previews and starts *)

Mine(q) == [runtime |-> request[q].runtime, goal |-> request[q].goal, ref |-> request[q].ref,
            bound |-> request[q].bound, parsed |-> request[q].parsed]

\* _preview_workflow ends: the plan is kept under a new token.
KeepPreview(q) ==
  /\ At(q, {"preview"}, "done")
  /\ \E t \in Tokens \ DOMAIN previews :
       /\ \A u \in Tokens : u < t => u \in DOMAIN previews
       /\ previews' = [u \in DOMAIN previews \cup {t} |-> IF u = t THEN Mine(q) ELSE previews[u]]
  /\ Leave(q)
  /\ UNCHANGED <<settings, runs, keys, sent, edits, plans>>

Bug_PlanOfReference(q, plan) ==
  /\ plan.runtime = request[q].runtime /\ plan.goal = request[q].goal
  /\ plan.ref = request[q].ref

Matches(q, plan) ==
  /\ plan.runtime = request[q].runtime /\ plan.goal = request[q].goal
  /\ plan.ref = request[q].ref /\ plan.bound = request[q].bound

\* _preview_binding_for_start: look the plan up under the lock, compare it ...
FetchPreview(q) ==
  /\ At(q, {"start"}, "fetch")
  /\ LET plan == previews[request[q].token]
     IN IF plan # Absent /\ Matches(q, plan)
        THEN Set(q, [request[q] EXCEPT !.parsed = plan.parsed, !.at = "pop"])
        ELSE Leave(q)
  /\ UNCHANGED <<settings, previews, runs, keys, sent, edits, plans>>

\* ... and take it away under the lock again, if it is still there.
PopPreview(q) ==
  /\ At(q, {"start"}, "pop")
  /\ previews' = [previews EXCEPT ![request[q].token] = Absent]
  /\ Set(q, [request[q] EXCEPT !.at = "done"])
  /\ UNCHANGED <<settings, runs, keys, sent, edits, plans>>

\* _start_run: the intent goes into the request's metadata, where Br1Workflow's
\* provider finds it.
StartRun(q) ==
  /\ At(q, {"start"}, "done")
  /\ runs' = runs \cup {[runtime |-> request[q].runtime, goal |-> request[q].goal,
                         ref |-> request[q].ref, bound |-> request[q].bound,
                         parsed |-> request[q].parsed, token |-> request[q].token]}
  /\ Leave(q)
  /\ UNCHANGED <<settings, previews, keys, sent, edits, plans>>

-----------------------------------------------------------------------------

Next ==
  \E q \in Requests :
    \/ \E p \in Refs :
         \/ \E new \in Profiles : BeginEdit(q, "save", p, new)
         \/ BeginKey(q, p) \/ BeginEdit(q, "forget", p, Absent)
         \/ BeginTest(q, p)
         \/ \E x \in Runtimes, g \in Goals :
              \/ BeginPlan(q, "preview", x, p, g, 0)
              \/ \E t \in {0} \cup DOMAIN previews : BeginPlan(q, "start", x, p, g, t)
    \/ ViewProfile(q) \/ ReadFile(q) \/ SaveProfile(q) \/ SaveKey(q) \/ RemoveKey(q)
    \/ BindProfile(q) \/ CheckCredential(q) \/ CreateAdapter(q) \/ Send(q)
    \/ KeepPreview(q) \/ FetchPreview(q) \/ PopPreview(q) \/ StartRun(q)

Spec == Init /\ [][Next]_vars

-----------------------------------------------------------------------------
(* Properties *)

\* Type invariant of the two files, the plans and the requests.
TypeOK ==
  /\ profiles \in File /\ secrets \in SecretsFile
  /\ DOMAIN previews \subseteq Tokens
  /\ \A t \in DOMAIN previews : previews[t] \in Plan \cup {Absent}
  /\ request \in [Requests -> Requesting]
  /\ runs \subseteq Run
  /\ keys \in [Keys -> Origin] /\ sent \subseteq Sent
  /\ edits \in 0..MaxEdits /\ plans \in 0..MaxPlans

\* A key is only ever sent for the reference it came for, and to a profile that stood
\* there at some moment between its arrival and set_secret's look: whoever saves the
\* profile anew before or afterwards, writes an older file back between that look and
\* the write of the key, or is about to call with an adapter made earlier
\* (upsert_profile, set_secret, resolve_secret).
KeyGoesHome ==
  \A s \in sent : s.ref = keys[s.key].ref /\ s.to \in keys[s.key].stood

\* With compile_intent, what a run is bound to is one profile: the one named in its
\* metadata is the one whose model read the goal, here or in the preview that was
\* confirmed (_provider_for_binding, _preview_binding_for_start) ...
ParsedByBound == \A r \in runs : r.runtime \in Compilers => r.parsed.by = r.bound

\* ... and the settings, the plans and the runs are well formed and agree on that,
\* whatever was edited between the preview, its confirmation and the start.
RunsBound == TypeOK /\ ParsedByBound

\* Expected to fail.  The same for every runtime profile: without compile_intent the
\* profile of the adapter is not compared with the bound one
\* (_compile_workflow_intent).
EveryRunBound == \A r \in runs : r.parsed.by = r.bound

\* Expected to fail.  There is never a doubt which of two profiles a key went to: its
\* request names the reference only, and set_secret takes what it finds there later.
KeyGoesWhereSent == \A s \in sent : keys[s.key].stood = {s.to}

\* Expected to fail.  A preview token, once popped, does not start a second run.
TokenStartsOneRun ==
  \A q, r \in Requests : q # r /\ At(q, {"start"}, "done") /\ At(r, {"start"}, "done") =>
    request[q].token = 0 \/ request[q].token # request[r].token

\* Expected to fail.  A profile once saved stays until it is saved again: a request
\* for another profile does not undo it.
SavedProfilesStay ==
  [][\A p \in Refs : profiles'[p] = Absent => profiles[p] = Absent]_vars

\* Expected to fail.  A key that was removed or replaced does not come back: a request
\* for another reference does not write it again.
KeysStayAway ==
  [][\A p \in Refs : secrets'[p] \notin {Absent, secrets[p]} =>
       \E q \in Requests :
         At(q, {"key"}, "write") /\ request[q].ref = p /\ request'[q].at = "idle"]_vars

=============================================================================
