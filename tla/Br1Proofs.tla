------------------------------- MODULE Br1Proofs -------------------------------
(***************************************************************************)
(* Proofs about what lies before and after the BR1 workflow, for any       *)
(* values of the constants.                                                *)
(*                                                                         *)
(* Br1Plans: a run is bound to the profile whose model read its goal, and  *)
(* a key goes where it was meant to.  The files may be overwritten by      *)
(* anybody between any two looks at them; what holds is what each request  *)
(* carries along, and what was true of a key when set_secret looked.       *)
(*                                                                         *)
(* EvidenceReview and Br1Science: a dataset is what was approved and its   *)
(* rows agree, whatever artifacts the model combined and in whatever       *)
(* order; and the host's time limit never comes before the command's.  The *)
(* first argument is that an artifact is never taken back: what a tool     *)
(* checked of its inputs is carried by its output as provenance.           *)
(*                                                                         *)
(* The data of a run: cleaning accounts for every record and the list is   *)
(* exact.  Both rest on a fold.  A fold is shown to be a row of results,   *)
(* each made from the one before, and what all of them satisfy follows     *)
(* because there is no least one that does not.                            *)
(***************************************************************************)
EXTENDS Br1Plans, Br1Science, TLAPS, FiniteSetTheorems, NaturalsInduction

(***************************************************************************)
(* Plans                                                                   *)
(***************************************************************************)

Editing == {"save", "key", "forget"}
Planning == {"test", "preview", "start"}

\* Of a request, a plan or a run.
ReadByBound(x) == x.runtime \in Compilers => x.parsed.by = x.bound

\* What a request carries at its place in the code; tokens are those given out.
Carries(r, tokens) ==
  /\ r.op \in Editing => r.ref \in Refs /\ r.at \in {"view", "read", "write"}
  /\ r.op = "key" => r.key \in Keys
  /\ r.op = "save" /\ r.at = "write" => r.file \in File
  /\ r.op \in {"key", "forget"} /\ r.at = "write" => r.file \in SecretsFile
  /\ r.op = "save" \/ (r.op = "key" /\ r.at # "view") => r.new \in Profiles
  /\ r.op \in Planning => r.ref \in Refs
  /\ r.op \in {"preview", "start"} => r.goal \in Goals /\ r.runtime \in Runtimes
  /\ r.op \in Planning /\ r.at # "read" => r.bound \in Profiles
  /\ r.op \in Planning /\ r.at = "send" =>
       r.adapter \in Profiles /\ (r.runtime \in Compilers => r.adapter = r.bound)
  /\ r.at \in {"pop", "done"} => r.parsed \in Parsed /\ ReadByBound(r)
  /\ r.token # 0 => r.op = "start" /\ r.token \in tokens
  /\ r.at = "fetch" => r.token # 0

PlansInv ==
  /\ TypeOK
  /\ ParsedByBound
  /\ \A t \in DOMAIN previews : previews[t] # Absent => ReadByBound(previews[t])
  /\ \A q \in Requests : Carries(request[q], DOMAIN previews)

-----------------------------------------------------------------------------

LEMMA NoRequestFits == NoRequest \in Requesting /\ \A s : Carries(NoRequest, s)
BY DEF NoRequest, Requesting, Carries, Editing, Planning

LEMMA InitPlansInv == Init => PlansInv
<1> SUFFICES ASSUME Init PROVE PlansInv
  OBVIOUS
<1>1. profiles \in File /\ secrets \in SecretsFile /\ keys \in [Keys -> Origin]
  BY DEF Init, File, SecretsFile, Origin
<1>2. request \in [Requests -> Requesting] /\ DOMAIN previews = {}
  BY NoRequestFits DEF Init
<1>3. TypeOK
  <2>1. edits \in 0..MaxEdits /\ plans \in 0..MaxPlans
    BY PlansAssumption DEF Init
  <2>2. runs \subseteq Run /\ sent \subseteq Sent
    BY DEF Init
  <2>3. QED
    BY <1>1, <1>2, <2>1, <2>2 DEF TypeOK
<1>4. \A q \in Requests : Carries(request[q], DOMAIN previews)
  BY NoRequestFits DEF Init
<1>5. QED
  BY <1>2, <1>3, <1>4 DEF Init, PlansInv, ParsedByBound

\* A step of one request that leaves it something fit to carry.
LEMMA RequestMoves ==
  ASSUME PlansInv, NEW q \in Requests, NEW r \in Requesting, Set(q, r),
         profiles' \in File, secrets' \in SecretsFile,
         DOMAIN previews \subseteq DOMAIN previews', DOMAIN previews' \subseteq Tokens,
         \A t \in DOMAIN previews' :
           /\ previews'[t] \in Plan \cup {Absent}
           /\ previews'[t] # Absent => ReadByBound(previews'[t]),
         runs' \subseteq Run, \A s \in runs' : ReadByBound(s),
         keys' \in [Keys -> Origin], sent' \subseteq Sent,
         edits' \in 0..MaxEdits, plans' \in 0..MaxPlans,
         Carries(r, DOMAIN previews')
  PROVE  PlansInv'
<1>1. TypeOK'
  BY DEF PlansInv, TypeOK, Set
<1>2. ASSUME NEW p \in Requests PROVE Carries(request'[p], DOMAIN previews')
  <2>1. CASE p = q
    BY <2>1 DEF PlansInv, TypeOK, Set
  <2>2. CASE p # q
    <3>1. request'[p] = request[p] /\ Carries(request[p], DOMAIN previews)
      BY <2>2 DEF PlansInv, TypeOK, Set
    <3>2. QED
      BY <3>1 DEF Carries
  <2>3. QED
    BY <2>1, <2>2
<1>3. QED
  BY <1>1, <1>2 DEF PlansInv, ParsedByBound, ReadByBound

\* The parts of the invariant a step of q starts from.
LEMMA Parts ==
  ASSUME PlansInv, NEW q \in Requests
  PROVE  /\ request[q] \in Requesting /\ Carries(request[q], DOMAIN previews)
         /\ profiles \in File /\ secrets \in SecretsFile
         /\ DOMAIN previews \subseteq Tokens
         /\ \A t \in DOMAIN previews :
              /\ previews[t] \in Plan \cup {Absent}
              /\ previews[t] # Absent => ReadByBound(previews[t])
         /\ runs \subseteq Run /\ \A s \in runs : ReadByBound(s)
         /\ keys \in [Keys -> Origin] /\ sent \subseteq Sent
         /\ edits \in 0..MaxEdits /\ plans \in 0..MaxPlans
         /\ MaxEdits \in Nat /\ MaxPlans \in Nat
BY PlansAssumption DEF PlansInv, TypeOK, ParsedByBound, ReadByBound

\* A step that changes nothing but what the request carries, and perhaps a counter.
LEMMA QuietMoves ==
  ASSUME PlansInv, NEW q \in Requests, NEW r \in Requesting, Set(q, r),
         UNCHANGED <<profiles, secrets, previews, runs, keys, sent>>,
         edits' \in 0..MaxEdits, plans' \in 0..MaxPlans,
         Carries(r, DOMAIN previews)
  PROVE  PlansInv'
<1>1. /\ profiles' \in File /\ secrets' \in SecretsFile
      /\ DOMAIN previews \subseteq DOMAIN previews' /\ DOMAIN previews' \subseteq Tokens
      /\ \A t \in DOMAIN previews' :
           /\ previews'[t] \in Plan \cup {Absent}
           /\ previews'[t] # Absent => ReadByBound(previews'[t])
      /\ runs' \subseteq Run /\ \A s \in runs' : ReadByBound(s)
      /\ keys' \in [Keys -> Origin] /\ sent' \subseteq Sent
      /\ Carries(r, DOMAIN previews')
  BY Parts
<1>2. QED
  BY <1>1, RequestMoves

LEMMA BeginStep ==
  ASSUME PlansInv, NEW q \in Requests, NEW p \in Refs,
         \/ \E new \in Profiles : BeginEdit(q, "save", p, new)
         \/ BeginKey(q, p) \/ BeginEdit(q, "forget", p, Absent)
         \/ BeginTest(q, p)
         \/ \E x \in Runtimes, g \in Goals :
              \/ BeginPlan(q, "preview", x, p, g, 0)
              \/ \E t \in {0} \cup DOMAIN previews : BeginPlan(q, "start", x, p, g, t)
  PROVE  PlansInv'
<1>1. ASSUME NEW op \in {"save", "forget"}, NEW new \in Profiles \cup {Absent},
             BeginEdit(q, op, p, new),
             op = "save" => new \in Profiles
      PROVE  PlansInv'
  <2> DEFINE r == [NoRequest EXCEPT !.op = op, !.ref = p, !.new = new, !.at = "read"]
  <2>1. r \in Requesting /\ Carries(r, DOMAIN previews)
    BY <1>1 DEF NoRequest, Requesting, Carries, Editing, Planning
  <2>2. /\ Set(q, r) /\ UNCHANGED <<profiles, secrets, previews, runs, keys, sent>>
        /\ edits < MaxEdits /\ edits' = edits + 1 /\ plans' = plans
    BY <1>1 DEF BeginEdit, Begin, settings
  <2>3. edits' \in 0..MaxEdits /\ plans' \in 0..MaxPlans
    BY <2>2, Parts
  <2> HIDE DEF r
  <2>4. QED
    BY <2>1, <2>2, <2>3, QuietMoves
<1>2. ASSUME NEW op \in {"preview", "start"}, NEW x \in Runtimes, NEW g \in Goals,
             NEW t \in {0} \cup DOMAIN previews,
             NEW r, r = [NoRequest EXCEPT !.op = op, !.runtime = x, !.ref = p, !.goal = g,
                                          !.token = t, !.at = "read"],
             t # 0 => op = "start",
             Begin(q, r), plans < MaxPlans, plans' = plans + 1,
             UNCHANGED <<settings, previews, runs, keys, sent, edits>>
      PROVE  PlansInv'
  <2>1. t \in {0} \cup Tokens
    BY Parts
  <2>2. r \in Requesting /\ Carries(r, DOMAIN previews)
    BY <1>2, <2>1 DEF NoRequest, Requesting, Carries, Editing, Planning
  <2>3. /\ Set(q, r) /\ UNCHANGED <<profiles, secrets, previews, runs, keys, sent>>
    BY <1>2 DEF Begin, settings
  <2>4. edits' \in 0..MaxEdits /\ plans' \in 0..MaxPlans
    BY <1>2, Parts
  <2>5. QED
    BY <2>2, <2>3, <2>4, QuietMoves
<1>3. ASSUME BeginTest(q, p) PROVE PlansInv'
  <2> DEFINE r == [NoRequest EXCEPT !.op = "test", !.ref = p, !.at = "read"]
  <2>1. r \in Requesting /\ Carries(r, DOMAIN previews)
    BY DEF NoRequest, Requesting, Carries, Editing, Planning
  <2>2. /\ Set(q, r) /\ UNCHANGED <<profiles, secrets, previews, runs, keys, sent>>
        /\ plans < MaxPlans /\ plans' = plans + 1 /\ edits' = edits
    BY <1>3 DEF BeginTest, Begin, settings
  <2>3. edits' \in 0..MaxEdits /\ plans' \in 0..MaxPlans
    BY <2>2, Parts
  <2> HIDE DEF r
  <2>4. QED
    BY <2>1, <2>2, <2>3, QuietMoves
<1>4. ASSUME NEW op \in {"preview", "start"}, NEW x \in Runtimes, NEW g \in Goals,
             NEW t \in {0} \cup DOMAIN previews,
             op = "preview" => t = 0, BeginPlan(q, op, x, p, g, t)
      PROVE  PlansInv'
  BY <1>2, <1>4 DEF BeginPlan
<1>5. ASSUME BeginKey(q, p) PROVE PlansInv'
  <2> DEFINE n == edits + 1
             r == [NoRequest EXCEPT !.op = "key", !.ref = p, !.key = n, !.at = "view"]
             o == [ref |-> p, stood |-> Present(profiles[p])]
  <2>1. /\ Set(q, r) /\ UNCHANGED <<profiles, secrets, previews, runs, sent, plans>>
        /\ edits < MaxEdits /\ edits' = n /\ keys' = [keys EXCEPT ![n] = o]
    BY <1>5 DEF BeginKey, Begin, settings
  <2>2. n \in Keys /\ edits' \in 0..MaxEdits
    BY <2>1, Parts DEF Keys
  <2> HIDE DEF n
  <2>3. r \in Requesting /\ Carries(r, DOMAIN previews)
    BY <2>2 DEF NoRequest, Requesting, Carries, Editing, Planning
  <2>4. Present(profiles[p]) \subseteq Profiles
    BY Parts DEF Present, File
  <2>5. o \in Origin
    BY <2>4 DEF Origin
  <2> HIDE DEF r, o
  <2>6. keys' \in [Keys -> Origin]
    BY <2>1, <2>2, <2>5, Parts
  <2>7. /\ profiles' \in File /\ secrets' \in SecretsFile
        /\ DOMAIN previews \subseteq DOMAIN previews' /\ DOMAIN previews' \subseteq Tokens
        /\ \A t \in DOMAIN previews' :
             /\ previews'[t] \in Plan \cup {Absent}
             /\ previews'[t] # Absent => ReadByBound(previews'[t])
        /\ runs' \subseteq Run /\ \A s \in runs' : ReadByBound(s)
        /\ sent' \subseteq Sent /\ plans' \in 0..MaxPlans /\ Carries(r, DOMAIN previews')
    BY <2>1, <2>3, Parts
  <2>8. QED
    BY <2>1, <2>2, <2>3, <2>6, <2>7, RequestMoves
<1>6. QED
  BY <1>1, <1>3, <1>4, <1>5

\* Any profile may be noted with the keys.
LEMMA NotedIsOrigin ==
  ASSUME PlansInv, NEW new \in File
  PROVE  Noted(new) \in [Keys -> Origin]
<1> SUFFICES ASSUME NEW k \in Keys PROVE Noted(new)[k] \in Origin
  BY DEF Noted
<1> DEFINE coming == {q \in Requests : At(q, {"key"}, "view") /\ request[q].key = k}
           now == UNION {Present(new[request[q].ref]) : q \in coming}
<1>1. \A q \in coming : request[q].ref \in Refs
  BY DEF At, PlansInv, Carries, Editing
<1>2. now \subseteq Profiles
  BY <1>1 DEF Present, File
<1>3. keys[k] \in Origin
  BY DEF PlansInv, TypeOK
<1>4. Noted(new)[k] = [keys[k] EXCEPT !.stood = @ \cup now]
  BY DEF Noted
<1> HIDE DEF now
<1>5. QED
  BY <1>2, <1>3, <1>4 DEF Origin

\* The settings: a request writes what it carries, whatever the file has become.
LEMMA SettingsStep ==
  ASSUME PlansInv, NEW q \in Requests,
         ViewProfile(q) \/ ReadFile(q) \/ SaveProfile(q) \/ SaveKey(q) \/ RemoveKey(q)
  PROVE  PlansInv'
<1> DEFINE o == request[q]
<1>0. o \in Requesting /\ Carries(o, DOMAIN previews) /\ profiles \in File /\ secrets \in SecretsFile
  BY Parts
<1>1. CASE ViewProfile(q) \/ ReadFile(q)
  <2>1. /\ UNCHANGED <<profiles, secrets, previews, runs, keys, sent, edits, plans>>
    BY <1>1 DEF ViewProfile, ReadFile, settings
  <2>2. PICK r : Set(q, r) /\ r \in Requesting /\ Carries(r, DOMAIN previews)
    <3>1. CASE Leave(q)
      BY <3>1, NoRequestFits DEF Leave
    <3>2. CASE ViewProfile(q) /\ ~Leave(q)
      <4> DEFINE r == [o EXCEPT !.new = profiles[o.ref], !.at = "read"]
      <4>1. o.op = "key" /\ profiles[o.ref] # Absent /\ Set(q, r)
        BY <3>2 DEF ViewProfile, At
      <4>2. profiles[o.ref] \in Profiles
        BY <1>0, <4>1 DEF Carries, File, Editing
      <4>3. r \in Requesting /\ Carries(r, DOMAIN previews)
        BY <1>0, <4>1, <4>2, ZenonT(60) DEF Requesting, Carries, Editing, Planning
      <4>4. QED
        BY <4>1, <4>3
    <3>3. CASE ReadFile(q) /\ ~Leave(q)
      <4> DEFINE f == IF o.op = "save" THEN profiles ELSE secrets
                 r == [o EXCEPT !.file = f, !.at = "write"]
      <4>1. o.op \in Editing /\ o.at = "read" /\ Set(q, r)
        BY <3>3 DEF ReadFile, At, Editing
      <4>2. /\ f \in File \cup SecretsFile
            /\ o.op = "save" => f \in File
            /\ o.op # "save" => f \in SecretsFile
        BY <1>0
      <4> HIDE DEF f
      <4>3. /\ r \in Requesting /\ r.at = "write" /\ r.file = f
            /\ r.op = o.op /\ r.ref = o.ref /\ r.key = o.key /\ r.new = o.new /\ r.token = o.token
        <5>1. r \in Requesting
          BY <1>0, <4>2 DEF Requesting
        <5>2. QED
          BY <1>0, <5>1 DEF Requesting
      <4> HIDE DEF r
      <4>4. Carries(r, DOMAIN previews)
        <5>1. /\ o.ref \in Refs /\ (o.op = "key" => o.key \in Keys) /\ o.token = 0
              /\ o.op \in {"save", "key"} => o.new \in Profiles
          BY <1>0, <4>1 DEF Carries, Editing
        <5>2. o.op \notin Planning
          BY <4>1 DEF Editing, Planning
        <5>3. QED
          BY <4>1, <4>2, <4>3, <5>1, <5>2 DEF Carries, Editing, Planning
      <4>5. QED
        BY <4>1, <4>3, <4>4
    <3>4. QED
      BY <1>1, <3>1, <3>2, <3>3
  <2>3. edits' \in 0..MaxEdits /\ plans' \in 0..MaxPlans
    BY <2>1, Parts
  <2>4. QED
    BY <2>1, <2>2, <2>3, QuietMoves
<1>2. CASE SaveProfile(q) \/ SaveKey(q) \/ RemoveKey(q)
  <2>1. /\ Set(q, NoRequest) /\ UNCHANGED <<previews, runs, sent, edits, plans>>
        /\ o.op \in Editing /\ o.at = "write"
    BY <1>2 DEF SaveProfile, SaveKey, RemoveKey, Leave, At, Editing
  <2>2. /\ o.op = "save" => o.file \in File
        /\ o.op \in {"key", "forget"} => o.file \in SecretsFile
        /\ o.op \in {"save", "key"} => o.new \in Profiles
        /\ o.op = "key" => o.key \in Keys
    BY <1>0, <2>1, ZenonT(60) DEF Carries
  <2>3. profiles' \in File /\ secrets' \in SecretsFile /\ keys' \in [Keys -> Origin]
    <3>1. CASE SaveProfile(q)
      <4>1. /\ profiles' = [o.file EXCEPT ![o.ref] = o.new] /\ secrets' = secrets
            /\ keys' = Noted(profiles') /\ o.op = "save"
        BY <3>1 DEF SaveProfile, At
      <4>2. profiles' \in File
        BY <2>2, <4>1 DEF File
      <4>3. QED
        BY <1>0, <4>1, <4>2, NotedIsOrigin
    <3>2. CASE SaveKey(q)
      <4> DEFINE secret == [key |-> o.key, bound |-> o.new]
      <4>1. /\ secrets' = [o.file EXCEPT ![o.ref] = secret] /\ o.op = "key"
            /\ UNCHANGED <<profiles, keys>>
        BY <3>2 DEF SaveKey, At
      <4>2. secret \in Secret
        BY <2>2, <4>1 DEF Secret
      <4> HIDE DEF secret
      <4>3. QED
        BY <1>0, <2>2, <4>1, <4>2, Parts DEF SecretsFile
    <3>3. CASE RemoveKey(q)
      BY <1>0, <2>2, <3>3, Parts DEF RemoveKey, At, SecretsFile
    <3>4. QED
      BY <1>2, <3>1, <3>2, <3>3
  <2>4. QED
    <3>1. /\ DOMAIN previews \subseteq DOMAIN previews' /\ DOMAIN previews' \subseteq Tokens
          /\ \A t \in DOMAIN previews' :
               /\ previews'[t] \in Plan \cup {Absent}
               /\ previews'[t] # Absent => ReadByBound(previews'[t])
          /\ runs' \subseteq Run /\ \A s \in runs' : ReadByBound(s)
          /\ sent' \subseteq Sent
          /\ edits' \in 0..MaxEdits /\ plans' \in 0..MaxPlans
      BY <2>1, Parts
    <3>2. QED
      BY <2>1, <2>3, <3>1, NoRequestFits, RequestMoves
<1>3. QED
  BY <1>1, <1>2

\* What a plan or a start reads of the profile it keeps, and only trusts an answer
\* of the profile it is bound to.
LEMMA ModelStep ==
  ASSUME PlansInv, NEW q \in Requests,
         BindProfile(q) \/ CheckCredential(q) \/ CreateAdapter(q) \/ Send(q)
  PROVE  PlansInv'
<1> DEFINE o == request[q]
<1>0. o \in Requesting /\ Carries(o, DOMAIN previews) /\ profiles \in File /\ secrets \in SecretsFile
  BY Parts
<1>1. CASE BindProfile(q) \/ CheckCredential(q) \/ CreateAdapter(q)
  <2>1. UNCHANGED <<profiles, secrets, previews, runs, keys, sent, edits, plans>>
    BY <1>1 DEF BindProfile, CheckCredential, CreateAdapter, settings
  <2>2. PICK r : Set(q, r) /\ r \in Requesting /\ Carries(r, DOMAIN previews)
    <3>1. CASE Leave(q)
      BY <3>1, NoRequestFits DEF Leave
    <3>2. CASE BindProfile(q) /\ ~Leave(q)
      <4> DEFINE b == profiles[o.ref]
                 r == [o EXCEPT !.bound = b, !.at = "credential"]
      <4>1. o.op \in Planning /\ o.at = "read" /\ b # Absent /\ Set(q, r)
        BY <3>2 DEF BindProfile, At, Planning
      <4>2. b \in Profiles
        BY <1>0, <4>1 DEF Carries, File
      <4>3. Set(q, r)
        BY <4>1
      <4> HIDE DEF b
      <4>4. r \in Requesting
        BY <1>0, <4>2 DEF Requesting
      <4>5. Carries(r, DOMAIN previews)
        BY <1>0, <4>1, <4>2 DEF Requesting, Carries, Editing, Planning
      <4>6. QED
        BY <4>3, <4>4, <4>5
    <3>3. CASE CheckCredential(q) /\ ~Leave(q)
      <4> DEFINE r == [o EXCEPT !.at = IF o.token = 0 THEN "adapter" ELSE "fetch"]
      <4>1. o.op \in Planning /\ o.at = "credential" /\ Set(q, r)
        BY <3>3 DEF CheckCredential, At, Planning
      <4>2. r \in Requesting /\ Carries(r, DOMAIN previews)
        BY <1>0, <4>1 DEF Requesting, Carries, Editing, Planning
      <4>3. QED
        BY <4>1, <4>2
    <3>4. CASE CreateAdapter(q) /\ ~Leave(q)
      <4> DEFINE a == profiles[o.ref]
                 r == [o EXCEPT !.adapter = a, !.at = "send"]
      <4>1. /\ o.op \in Planning /\ o.at = "adapter" /\ a # Absent /\ Set(q, r)
            /\ o.runtime \in Compilers => a = o.bound
        BY <3>4 DEF CreateAdapter, ProviderForBinding, At, Planning
      <4>2. a \in Profiles
        BY <1>0, <4>1 DEF Carries, File
      <4>3. Set(q, r)
        BY <4>1
      <4> HIDE DEF a
      <4>4. r \in Requesting
        BY <1>0, <4>2 DEF Requesting
      <4>5. Carries(r, DOMAIN previews)
        BY <1>0, <4>1, <4>2 DEF Requesting, Carries, Editing, Planning
      <4>6. QED
        BY <4>3, <4>4, <4>5
    <3>5. QED
      BY <1>1, <3>1, <3>2, <3>3, <3>4
  <2>3. edits' \in 0..MaxEdits /\ plans' \in 0..MaxPlans
    BY <2>1, Parts
  <2>4. QED
    BY <2>1, <2>2, <2>3, QuietMoves
<1>2. CASE Send(q)
  <2>1. /\ o.op \in Planning /\ o.at = "send"
        /\ UNCHANGED <<profiles, secrets, previews, runs, keys, edits, plans>>
        /\ sent' = sent \cup KeySent(o.adapter, o.ref)
    BY <1>2 DEF Send, At, Planning, settings
  <2>2. o.adapter \in Profiles /\ (o.runtime \in Compilers => o.adapter = o.bound)
    BY <1>0, <2>1 DEF Carries
  <2>3. sent' \subseteq Sent
    <3>1. o.ref \in Refs
      BY <1>0, <2>1 DEF Carries
    <3>2. ASSUME secrets[o.ref] # Absent
          PROVE  [key |-> secrets[o.ref].key, ref |-> o.ref, to |-> o.adapter] \in Sent
      BY <1>0, <2>2, <3>1, <3>2 DEF SecretsFile, Secret, Sent
    <3>3. KeySent(o.adapter, o.ref) \subseteq Sent
      BY <3>2 DEF KeySent, Fits
    <3>4. QED
      BY <2>1, <3>3, Parts
  <2>4. PICK r : Set(q, r) /\ r \in Requesting /\ Carries(r, DOMAIN previews)
    <3>1. CASE Leave(q)
      BY <3>1, NoRequestFits DEF Leave
    <3>2. CASE ~Leave(q)
      <4>1. PICK i \in Intents :
              /\ o.op # "test"
              /\ Set(q, [o EXCEPT !.parsed = [intent |-> i, by |-> o.adapter], !.at = "done"])
        BY <1>2, <3>2 DEF Send
      <4> DEFINE a == [intent |-> i, by |-> o.adapter]
                 r == [o EXCEPT !.parsed = a, !.at = "done"]
      <4>2. a \in Parsed /\ (o.runtime \in Compilers => a.by = o.bound)
        BY <2>2, <4>1 DEF Parsed
      <4> HIDE DEF a
      <4>3. Set(q, r)
        BY <4>1 DEF a
      <4>4. /\ r \in Requesting /\ r.at = "done" /\ r.parsed = a
            /\ r.op = o.op /\ r.ref = o.ref /\ r.goal = o.goal /\ r.runtime = o.runtime
            /\ r.bound = o.bound /\ r.token = o.token
        <5>1. r \in Requesting
          BY <1>0, <4>2 DEF Requesting
        <5>2. QED
          BY <1>0, <5>1 DEF Requesting
      <4> HIDE DEF r
      <4>5. Carries(r, DOMAIN previews)
        <5>1. /\ o.ref \in Refs /\ o.bound \in Profiles
              /\ o.op \in {"preview", "start"} => o.goal \in Goals /\ o.runtime \in Runtimes
              /\ o.token # 0 => o.op = "start" /\ o.token \in DOMAIN previews
          BY <1>0, <2>1 DEF Carries
        <5>2. o.op \notin Editing /\ o.op \in Planning
          BY <2>1 DEF Editing, Planning
        <5>3. ReadByBound(r)
          BY <4>2, <4>4 DEF ReadByBound
        <5>4. QED
          BY <4>2, <4>4, <5>1, <5>2, <5>3 DEF Carries, Editing
      <4>6. QED
        BY <4>3, <4>4, <4>5
    <3>3. QED
      BY <3>1, <3>2
  <2>5. /\ DOMAIN previews \subseteq DOMAIN previews' /\ DOMAIN previews' \subseteq Tokens
        /\ \A t \in DOMAIN previews' :
             /\ previews'[t] \in Plan \cup {Absent}
             /\ previews'[t] # Absent => ReadByBound(previews'[t])
        /\ runs' \subseteq Run /\ \A s \in runs' : ReadByBound(s)
        /\ keys' \in [Keys -> Origin] /\ edits' \in 0..MaxEdits /\ plans' \in 0..MaxPlans
        /\ profiles' \in File /\ secrets' \in SecretsFile
    BY <2>1, Parts
  <2>6. Carries(r, DOMAIN previews')
    BY <2>1, <2>4
  <2>7. QED
    BY <2>3, <2>4, <2>5, <2>6, RequestMoves
<1>3. QED
  BY <1>1, <1>2

\* The plans: a preview keeps what its request carried, a start takes that over.
LEMMA PreviewStep ==
  ASSUME PlansInv, NEW q \in Requests,
         KeepPreview(q) \/ FetchPreview(q) \/ PopPreview(q) \/ StartRun(q)
  PROVE  PlansInv'
<1> DEFINE o == request[q]
<1>0. o \in Requesting /\ Carries(o, DOMAIN previews) /\ profiles \in File /\ secrets \in SecretsFile
  BY Parts
<1>1. CASE KeepPreview(q)
  <2>1. PICK t \in Tokens \ DOMAIN previews :
          previews' = [u \in DOMAIN previews \cup {t} |-> IF u = t THEN Mine(q) ELSE previews[u]]
    BY <1>1 DEF KeepPreview
  <2>2. /\ o.op = "preview" /\ o.at = "done" /\ Set(q, NoRequest)
        /\ UNCHANGED <<profiles, secrets, runs, keys, sent, edits, plans>>
    BY <1>1 DEF KeepPreview, At, Leave, settings
  <2>3. Mine(q) \in Plan /\ ReadByBound(Mine(q))
    BY <1>0, <2>2 DEF Mine, Plan, Carries, ReadByBound, Planning
  <2>4. /\ DOMAIN previews \subseteq DOMAIN previews' /\ DOMAIN previews' \subseteq Tokens
        /\ \A u \in DOMAIN previews' :
             /\ previews'[u] \in Plan \cup {Absent}
             /\ previews'[u] # Absent => ReadByBound(previews'[u])
    BY <2>1, <2>3, Parts
  <2>5. /\ runs' \subseteq Run /\ \A s \in runs' : ReadByBound(s)
        /\ keys' \in [Keys -> Origin] /\ sent' \subseteq Sent
        /\ edits' \in 0..MaxEdits /\ plans' \in 0..MaxPlans
        /\ profiles' \in File /\ secrets' \in SecretsFile
    BY <2>2, Parts
  <2>6. QED
    BY <2>2, <2>4, <2>5, NoRequestFits, RequestMoves
<1>2. CASE FetchPreview(q)
  <2>1. /\ o.op = "start" /\ o.at = "fetch"
        /\ UNCHANGED <<profiles, secrets, previews, runs, keys, sent, edits, plans>>
    BY <1>2 DEF FetchPreview, At, settings
  <2>2. PICK r : Set(q, r) /\ r \in Requesting /\ Carries(r, DOMAIN previews)
    <3>1. CASE Leave(q)
      BY <3>1, NoRequestFits DEF Leave
    <3>2. CASE ~Leave(q)
      <4> DEFINE plan == previews[o.token]
                 a == plan.parsed
                 r == [o EXCEPT !.parsed = a, !.at = "pop"]
      <4>1. plan # Absent /\ plan.runtime = o.runtime /\ plan.bound = o.bound /\ Set(q, r)
        BY <1>2, <3>2 DEF FetchPreview, Matches
      <4>2. o.token \in DOMAIN previews
        BY <1>0, <2>1 DEF Carries
      <4>3. plan \in Plan /\ (o.runtime \in Compilers => a.by = o.bound)
        BY <4>1, <4>2, Parts DEF ReadByBound
      <4>4. a \in Parsed
        BY <4>3 DEF Plan
      <4> HIDE DEF a
      <4>5. Set(q, r)
        BY <4>1 DEF a
      <4>6. /\ r \in Requesting /\ r.at = "pop" /\ r.parsed = a
            /\ r.op = o.op /\ r.ref = o.ref /\ r.goal = o.goal /\ r.runtime = o.runtime
            /\ r.bound = o.bound /\ r.token = o.token
        <5>1. r \in Requesting
          BY <1>0, <4>4 DEF Requesting
        <5>2. QED
          BY <1>0, <5>1 DEF Requesting
      <4> HIDE DEF r
      <4>7. Carries(r, DOMAIN previews)
        <5>1. /\ o.ref \in Refs /\ o.bound \in Profiles /\ o.goal \in Goals
              /\ o.runtime \in Runtimes
              /\ o.token # 0 => o.op = "start" /\ o.token \in DOMAIN previews
          BY <1>0, <2>1 DEF Carries, Planning
        <5>2. ReadByBound(r)
          BY <4>3, <4>6 DEF ReadByBound
        <5>3. QED
          BY <2>1, <4>4, <4>6, <5>1, <5>2 DEF Carries, Editing
      <4>8. QED
        BY <4>5, <4>6, <4>7
    <3>3. QED
      BY <3>1, <3>2
  <2>3. edits' \in 0..MaxEdits /\ plans' \in 0..MaxPlans
    BY <2>1, Parts
  <2>4. QED
    BY <2>1, <2>2, <2>3, QuietMoves
<1>3. CASE PopPreview(q)
  <2> DEFINE r == [o EXCEPT !.at = "done"]
  <2>1. /\ o.op = "start" /\ o.at = "pop" /\ Set(q, r)
        /\ previews' = [previews EXCEPT ![o.token] = Absent]
        /\ UNCHANGED <<profiles, secrets, runs, keys, sent, edits, plans>>
    BY <1>3 DEF PopPreview, At, settings
  <2>2. r \in Requesting /\ Carries(r, DOMAIN previews)
    BY <1>0, <2>1 DEF Requesting, Carries, ReadByBound, Editing, Planning
  <2>3. /\ DOMAIN previews' = DOMAIN previews
        /\ \A u \in DOMAIN previews' : previews'[u] = previews[u] \/ previews'[u] = Absent
    BY <2>1
  <2>4. /\ DOMAIN previews \subseteq DOMAIN previews' /\ DOMAIN previews' \subseteq Tokens
        /\ \A u \in DOMAIN previews' :
             /\ previews'[u] \in Plan \cup {Absent}
             /\ previews'[u] # Absent => ReadByBound(previews'[u])
    BY <2>3, Parts
  <2>5. /\ runs' \subseteq Run /\ \A s \in runs' : ReadByBound(s)
        /\ keys' \in [Keys -> Origin] /\ sent' \subseteq Sent
        /\ edits' \in 0..MaxEdits /\ plans' \in 0..MaxPlans
        /\ profiles' \in File /\ secrets' \in SecretsFile
    BY <2>1, Parts
  <2>6. Carries(r, DOMAIN previews')
    BY <2>2, <2>3
  <2> HIDE DEF r
  <2>7. QED
    BY <2>1, <2>2, <2>4, <2>5, <2>6, RequestMoves
<1>4. CASE StartRun(q)
  <2> DEFINE s0 == [runtime |-> o.runtime, goal |-> o.goal, ref |-> o.ref, bound |-> o.bound,
                    parsed |-> o.parsed, token |-> o.token]
  <2>1. /\ o.op = "start" /\ o.at = "done" /\ Set(q, NoRequest)
        /\ runs' = runs \cup {s0}
        /\ UNCHANGED <<profiles, secrets, previews, keys, sent, edits, plans>>
    BY <1>4 DEF StartRun, At, Leave, settings
  <2>2. s0 \in Run /\ ReadByBound(s0)
    BY <1>0, <2>1 DEF Run, Carries, ReadByBound, Planning, Requesting
  <2> HIDE DEF s0
  <2>3. runs' \subseteq Run /\ \A s \in runs' : ReadByBound(s)
    BY <2>1, <2>2, Parts
  <2>4. /\ DOMAIN previews \subseteq DOMAIN previews' /\ DOMAIN previews' \subseteq Tokens
        /\ \A t \in DOMAIN previews' :
             /\ previews'[t] \in Plan \cup {Absent}
             /\ previews'[t] # Absent => ReadByBound(previews'[t])
        /\ keys' \in [Keys -> Origin] /\ sent' \subseteq Sent
        /\ edits' \in 0..MaxEdits /\ plans' \in 0..MaxPlans
        /\ profiles' \in File /\ secrets' \in SecretsFile
    BY <2>1, Parts
  <2>5. QED
    BY <2>1, <2>3, <2>4, NoRequestFits, RequestMoves
<1>5. QED
  BY <1>1, <1>2, <1>3, <1>4

LEMMA PlansInvStep == PlansInv /\ [Next]_vars => PlansInv'
<1>1. CASE Next
  BY <1>1, BeginStep, SettingsStep, ModelStep, PreviewStep DEF Next
<1>2. ASSUME PlansInv, UNCHANGED vars PROVE PlansInv'
  BY <1>2 DEF vars, PlansInv, TypeOK, ParsedByBound
<1>3. QED
  BY <1>1, <1>2

LEMMA PlansInvHolds == Spec => []PlansInv
BY InitPlansInv, PlansInvStep, PTL DEF Spec

-----------------------------------------------------------------------------
(* Keys.  A key is at home with what is kept beside it if it came for that *)
(* reference and that profile stood there in time.  It is brought there by *)
(* set_secret, or by a file somebody read earlier; neither can tell, when  *)
(* it is written, what has become of the profiles.                         *)

\* n: the number of keys that came.
AtHome(p, s, ks, n) == s.key \in 1..n /\ ks[s.key].ref = p /\ s.bound \in ks[s.key].stood

\* What a request brings along; file: the profiles.
Brings(r, file, ks, n) ==
  /\ r.op = "key" =>
       /\ r.key \in 1..n /\ ks[r.key].ref = r.ref
       /\ r.at = "view" => Present(file[r.ref]) \subseteq ks[r.key].stood
       /\ r.at # "view" => r.new \in ks[r.key].stood
  /\ r.op \in {"key", "forget"} /\ r.at = "write" =>
       \A p \in Refs : r.file[p] # Absent => AtHome(p, r.file[p], ks, n)

KeysInv ==
  /\ \A p \in Refs : secrets[p] # Absent => AtHome(p, secrets[p], keys, edits)
  /\ \A q \in Requests : Brings(request[q], profiles, keys, edits)
  /\ \A s \in sent : s.key \in 1..edits
  /\ KeyGoesHome

\* What is known of a key that came is not forgotten.
Kept(ks, n, later, m) ==
  /\ n <= m
  /\ \A k \in 1..n : later[k].ref = ks[k].ref /\ ks[k].stood \subseteq later[k].stood

LEMMA InitKeysInv == Init => KeysInv
BY DEF Init, KeysInv, KeyGoesHome, Brings, NoRequest

LEMMA StaysHome ==
  ASSUME NEW p, NEW s, NEW ks, NEW later, NEW n \in Nat, NEW m \in Nat,
         Kept(ks, n, later, m), AtHome(p, s, ks, n)
  PROVE  AtHome(p, s, later, m)
<1>1. s.key \in 1..n /\ n <= m
  BY DEF Kept, AtHome
<1>2. s.key \in 1..m
  BY <1>1
<1>3. QED
  BY <1>1, <1>2 DEF Kept, AtHome

\* A request that does not move brings what it brought: a profile that is saved is
\* noted with the keys that set_secret has not looked for.
LEMMA OthersBring ==
  ASSUME PlansInv, KeysInv, NEW q \in Requests, Kept(keys, edits, keys', edits'), edits' \in Nat,
         profiles' = profiles \/ keys' = Noted(profiles')
  PROVE  Brings(request[q], profiles', keys', edits')
<1> DEFINE o == request[q]
<1>1. Brings(o, profiles, keys, edits) /\ Carries(o, DOMAIN previews)
  BY DEF KeysInv, PlansInv
<1>2. edits \in Nat /\ edits <= MaxEdits
  BY Parts
<1>3. ASSUME o.op = "key"
      PROVE  /\ o.key \in 1..edits' /\ keys'[o.key].ref = o.ref
             /\ o.at = "view" => Present(profiles'[o.ref]) \subseteq keys'[o.key].stood
             /\ o.at # "view" => o.new \in keys'[o.key].stood
  <2>1. o.key \in 1..edits /\ keys[o.key].ref = o.ref
    BY <1>1, <1>3 DEF Brings
  <2>2. o.key \in 1..edits'
    BY <1>2, <2>1 DEF Kept
  <2>3. keys'[o.key].ref = keys[o.key].ref /\ keys[o.key].stood \subseteq keys'[o.key].stood
    BY <2>1 DEF Kept
  <2>4. o.at # "view" => o.new \in keys'[o.key].stood
    BY <1>1, <1>3, <2>3 DEF Brings
  <2>5. ASSUME o.at = "view" PROVE Present(profiles'[o.ref]) \subseteq keys'[o.key].stood
    <3>1. CASE profiles' = profiles
      BY <1>1, <1>3, <2>3, <2>5, <3>1 DEF Brings
    <3>2. CASE keys' = Noted(profiles')
      <4> DEFINE coming == {c \in Requests : At(c, {"key"}, "view") /\ request[c].key = o.key}
                 now == UNION {Present(profiles'[request[c].ref]) : c \in coming}
      <4>1. q \in coming
        BY <1>3, <2>5 DEF At
      <4>2. Present(profiles'[o.ref]) \subseteq now
        BY <4>1
      <4>3. o.key \in Keys /\ keys[o.key] \in Origin
        BY <1>1, <1>3, Parts DEF Carries
      <4>4. keys'[o.key] = [keys[o.key] EXCEPT !.stood = @ \cup now]
        BY <3>2, <4>3 DEF Noted
      <4> HIDE DEF now
      <4>5. QED
        BY <4>2, <4>3, <4>4 DEF Origin
    <3>3. QED
      BY <3>1, <3>2
  <2>6. QED
    BY <2>1, <2>2, <2>3, <2>4, <2>5
<1>4. ASSUME o.op \in {"key", "forget"}, o.at = "write", NEW p \in Refs, o.file[p] # Absent
      PROVE  AtHome(p, o.file[p], keys', edits')
  <2>1. AtHome(p, o.file[p], keys, edits)
    BY <1>1, <1>4 DEF Brings
  <2>2. QED
    BY <1>2, <2>1, StaysHome
<1>5. QED
  BY <1>3, <1>4 DEF Brings

\* A step of one request, by what it leaves the request, writes and sends.
LEMMA KeysMove ==
  ASSUME PlansInv, KeysInv, NEW q \in Requests, NEW r, Set(q, r),
         Kept(keys, edits, keys', edits'), edits' \in Nat,
         profiles' = profiles \/ keys' = Noted(profiles'),
         \A p \in Refs : secrets'[p] = secrets[p] \/ secrets'[p] = Absent
                           \/ AtHome(p, secrets'[p], keys', edits'),
         Brings(r, profiles', keys', edits'),
         \A s \in sent' : s \in sent
           \/ (s.key \in 1..edits' /\ s.ref = keys'[s.key].ref /\ s.to \in keys'[s.key].stood)
  PROVE  KeysInv'
<1>0. edits \in Nat
  BY Parts
<1>1. ASSUME NEW p \in Refs, secrets'[p] # Absent PROVE AtHome(p, secrets'[p], keys', edits')
  <2>1. CASE secrets'[p] = secrets[p]
    BY <1>0, <1>1, <2>1, StaysHome DEF KeysInv
  <2>2. CASE secrets'[p] # secrets[p]
    BY <1>1, <2>2
  <2>3. QED
    BY <2>1, <2>2
<1>2. ASSUME NEW c \in Requests PROVE Brings(request'[c], profiles', keys', edits')
  <2>1. CASE c = q
    BY <2>1 DEF PlansInv, TypeOK, Set
  <2>2. CASE c # q
    BY <2>2, OthersBring DEF PlansInv, TypeOK, Set
  <2>3. QED
    BY <2>1, <2>2
<1>3. ASSUME NEW s \in sent'
      PROVE  s.key \in 1..edits' /\ s.ref = keys'[s.key].ref /\ s.to \in keys'[s.key].stood
  <2>1. CASE s \in sent
    <3>1. s.key \in 1..edits /\ s.ref = keys[s.key].ref /\ s.to \in keys[s.key].stood
      BY <2>1 DEF KeysInv, KeyGoesHome
    <3>2. s.key \in 1..edits'
      BY <1>0, <3>1 DEF Kept
    <3>3. QED
      BY <3>1, <3>2 DEF Kept
  <2>2. CASE s \notin sent
    BY <1>3, <2>2
  <2>3. QED
    BY <2>1, <2>2
<1>4. QED
  BY <1>1, <1>2, <1>3 DEF KeysInv, KeyGoesHome

\* A step that leaves settings and keys alone, and the request without a key.
LEMMA KeysQuiet ==
  ASSUME PlansInv, KeysInv, NEW q \in Requests, NEW r, Set(q, r),
         UNCHANGED <<profiles, secrets, keys, sent>>, edits' \in Nat, edits <= edits',
         Brings(r, profiles, keys, edits')
  PROVE  KeysInv'
<1>1. Kept(keys, edits, keys', edits')
  BY DEF Kept
<1>2. Brings(r, profiles', keys', edits')
  OBVIOUS
<1>3. \A p \in Refs : secrets'[p] = secrets[p]
  OBVIOUS
<1>4. QED
  BY <1>1, <1>2, <1>3, KeysMove

LEMMA KeysBegin ==
  ASSUME PlansInv, KeysInv, NEW q \in Requests, NEW p \in Refs,
         \/ \E new \in Profiles : BeginEdit(q, "save", p, new)
         \/ BeginKey(q, p) \/ BeginEdit(q, "forget", p, Absent)
         \/ BeginTest(q, p)
         \/ \E x \in Runtimes, g \in Goals :
              \/ BeginPlan(q, "preview", x, p, g, 0)
              \/ \E t \in {0} \cup DOMAIN previews : BeginPlan(q, "start", x, p, g, t)
  PROVE  KeysInv'
<1>0. edits \in Nat
  BY Parts
<1>1. CASE BeginKey(q, p)
  <2> DEFINE n == edits + 1
             r == [NoRequest EXCEPT !.op = "key", !.ref = p, !.key = n, !.at = "view"]
             o == [ref |-> p, stood |-> Present(profiles[p])]
  <2>1. /\ Set(q, r) /\ UNCHANGED <<profiles, secrets, sent>>
        /\ edits < MaxEdits /\ edits' = n /\ keys' = [keys EXCEPT ![n] = o]
    BY <1>1 DEF BeginKey, Begin, settings
  <2>2. n \in Keys /\ n \in Nat /\ n \in 1..n /\ edits <= n /\ n \notin 1..edits
    BY <1>0, <2>1, Parts DEF Keys
  <2>3. keys'[n] = o
    BY <2>1, <2>2, Parts
  <2>4. Kept(keys, edits, keys', edits')
    BY <2>1, <2>2 DEF Kept
  <2> HIDE DEF n
  <2>5. Brings(r, profiles', keys', edits')
    BY <2>1, <2>2, <2>3 DEF Brings, NoRequest
  <2> HIDE DEF r
  <2>6. QED
    BY <2>1, <2>2, <2>4, <2>5, KeysMove
<1>2. CASE ~BeginKey(q, p)
  <2>1. PICK r : /\ Set(q, r) /\ UNCHANGED <<profiles, secrets, keys, sent>>
                 /\ edits' = edits \/ edits' = edits + 1
                 /\ r.op # "key" /\ r.at = "read"
    <3>1. ASSUME NEW op \in {"save", "forget"}, NEW new, BeginEdit(q, op, p, new)
          PROVE  \E r : /\ Set(q, r) /\ UNCHANGED <<profiles, secrets, keys, sent>>
                        /\ edits' = edits \/ edits' = edits + 1
                        /\ r.op # "key" /\ r.at = "read"
      <4> DEFINE r == [NoRequest EXCEPT !.op = op, !.ref = p, !.new = new, !.at = "read"]
      <4>1. /\ Set(q, r) /\ UNCHANGED <<profiles, secrets, keys, sent>> /\ edits' = edits + 1
        BY <3>1 DEF BeginEdit, Begin, settings
      <4>2. r.op # "key" /\ r.at = "read"
        BY DEF NoRequest
      <4> HIDE DEF r
      <4>3. QED
        BY <4>1, <4>2
    <3>2. ASSUME NEW op \in {"preview", "start"}, NEW x, NEW g, NEW n,
                 BeginPlan(q, op, x, p, g, n)
          PROVE  \E r : /\ Set(q, r) /\ UNCHANGED <<profiles, secrets, keys, sent>>
                        /\ edits' = edits \/ edits' = edits + 1
                        /\ r.op # "key" /\ r.at = "read"
      <4> DEFINE r == [NoRequest EXCEPT !.op = op, !.runtime = x, !.ref = p, !.goal = g,
                                        !.token = n, !.at = "read"]
      <4>1. /\ Set(q, r) /\ UNCHANGED <<profiles, secrets, keys, sent>> /\ edits' = edits
        BY <3>2 DEF BeginPlan, Begin, settings
      <4>2. r.op # "key" /\ r.at = "read"
        BY DEF NoRequest
      <4> HIDE DEF r
      <4>3. QED
        BY <4>1, <4>2
    <3>3. ASSUME BeginTest(q, p)
          PROVE  \E r : /\ Set(q, r) /\ UNCHANGED <<profiles, secrets, keys, sent>>
                        /\ edits' = edits \/ edits' = edits + 1
                        /\ r.op # "key" /\ r.at = "read"
      <4> DEFINE r == [NoRequest EXCEPT !.op = "test", !.ref = p, !.at = "read"]
      <4>1. /\ Set(q, r) /\ UNCHANGED <<profiles, secrets, keys, sent>> /\ edits' = edits
        BY <3>3 DEF BeginTest, Begin, settings
      <4>2. r.op # "key" /\ r.at = "read"
        BY DEF NoRequest
      <4> HIDE DEF r
      <4>3. QED
        BY <4>1, <4>2
    <3>4. QED
      BY <1>2, <3>1, <3>2, <3>3
  <2>2. edits' \in Nat /\ edits <= edits'
    BY <1>0, <2>1
  <2>3. Brings(r, profiles, keys, edits')
    BY <2>1 DEF Brings
  <2>4. QED
    BY <2>1, <2>2, <2>3, KeysQuiet
<1>3. QED
  BY <1>1, <1>2

LEMMA KeysSettings ==
  ASSUME PlansInv, KeysInv, NEW q \in Requests,
         ViewProfile(q) \/ ReadFile(q) \/ SaveProfile(q) \/ SaveKey(q) \/ RemoveKey(q)
  PROVE  KeysInv'
<1> DEFINE o == request[q]
<1>0. /\ o \in Requesting /\ Carries(o, DOMAIN previews) /\ edits \in Nat
      /\ profiles \in File /\ secrets \in SecretsFile /\ keys \in [Keys -> Origin]
  BY Parts
<1>1. Brings(o, profiles, keys, edits)
  BY DEF KeysInv
<1>2. \A file, ks : Brings(NoRequest, file, ks, edits)
  BY DEF Brings, NoRequest
<1>3. CASE ViewProfile(q) \/ ReadFile(q)
  <2>1. UNCHANGED <<profiles, secrets, keys, sent, edits>>
    BY <1>3 DEF ViewProfile, ReadFile, settings
  <2>2. PICK r : Set(q, r) /\ Brings(r, profiles, keys, edits)
    <3>1. CASE Leave(q)
      BY <1>2, <3>1 DEF Leave
    <3>2. CASE ViewProfile(q) /\ ~Leave(q)
      <4> DEFINE r == [o EXCEPT !.new = profiles[o.ref], !.at = "read"]
      <4>1. o.op = "key" /\ o.at = "view" /\ profiles[o.ref] # Absent /\ Set(q, r)
        BY <3>2 DEF ViewProfile, At
      <4>2. r.op = "key" /\ r.at = "read" /\ r.key = o.key /\ r.ref = o.ref /\ r.new = profiles[o.ref]
        BY <1>0, <4>1 DEF Requesting
      <4>3. profiles[o.ref] \in keys[o.key].stood
        BY <1>1, <4>1 DEF Brings, Present
      <4>4. Set(q, r)
        BY <4>1
      <4> HIDE DEF r
      <4>5. Brings(r, profiles, keys, edits)
        BY <1>1, <4>1, <4>2, <4>3 DEF Brings
      <4>6. QED
        BY <4>4, <4>5
    <3>3. CASE ReadFile(q) /\ ~Leave(q)
      <4> DEFINE f == IF o.op = "save" THEN profiles ELSE secrets
                 r == [o EXCEPT !.file = f, !.at = "write"]
      <4>1. o.at = "read" /\ Set(q, r)
        BY <3>3 DEF ReadFile, At
      <4>2. o.op # "save" => f = secrets
        OBVIOUS
      <4>3. /\ r.op = o.op /\ r.at = "write" /\ r.key = o.key /\ r.ref = o.ref /\ r.new = o.new
            /\ r.file = f
        BY <1>0 DEF Requesting
      <4> HIDE DEF r, f
      <4>4. ASSUME r.op \in {"key", "forget"}, NEW p \in Refs, r.file[p] # Absent
            PROVE  AtHome(p, r.file[p], keys, edits)
        BY <4>2, <4>3, <4>4 DEF KeysInv
      <4>5. Brings(r, profiles, keys, edits)
        BY <1>1, <4>1, <4>3, <4>4 DEF Brings
      <4>6. QED
        BY <4>1, <4>5
    <3>4. QED
      BY <1>3, <3>1, <3>2, <3>3
  <2>3. edits' \in Nat /\ edits <= edits' /\ Brings(r, profiles, keys, edits')
    BY <1>0, <2>1, <2>2
  <2>4. QED
    BY <2>1, <2>2, <2>3, KeysQuiet
<1>4. CASE SaveProfile(q)
  <2>1. /\ Set(q, NoRequest) /\ UNCHANGED <<secrets, sent, edits>>
        /\ keys' = Noted(profiles')
    BY <1>4 DEF SaveProfile, Leave
  <2>2. ASSUME NEW k \in 1..edits
        PROVE  keys'[k].ref = keys[k].ref /\ keys[k].stood \subseteq keys'[k].stood
    <3>1. k \in Keys /\ keys[k] \in Origin
      BY Parts DEF Keys
    <3> DEFINE coming == {c \in Requests : At(c, {"key"}, "view") /\ request[c].key = k}
               now == UNION {Present(profiles'[request[c].ref]) : c \in coming}
    <3>2. keys'[k] = [keys[k] EXCEPT !.stood = @ \cup now]
      BY <2>1, <3>1 DEF Noted
    <3> HIDE DEF now
    <3>3. QED
      BY <3>1, <3>2 DEF Origin
  <2>3. Kept(keys, edits, keys', edits') /\ edits' \in Nat
    BY <1>0, <2>1, <2>2 DEF Kept
  <2>4. Brings(NoRequest, profiles', keys', edits') /\ \A p \in Refs : secrets'[p] = secrets[p]
    BY <1>2, <2>1
  <2>5. QED
    BY <2>1, <2>3, <2>4, KeysMove
<1>5. CASE SaveKey(q) \/ RemoveKey(q)
  <2> DEFINE secret == [key |-> o.key, bound |-> o.new]
             kept == IF o.op = "key" THEN secret ELSE Absent
  <2>1. /\ Set(q, NoRequest) /\ UNCHANGED <<profiles, keys, sent, edits>>
        /\ o.op \in {"key", "forget"} /\ o.at = "write"
        /\ secrets' = [o.file EXCEPT ![o.ref] = kept]
    BY <1>5 DEF SaveKey, RemoveKey, Leave, At
  <2>2. o.file \in SecretsFile
    BY <1>0, <2>1 DEF Carries
  <2>3. o.op = "key" => AtHome(o.ref, secret, keys, edits)
    BY <1>1, <2>1 DEF Brings, AtHome
  <2>4. kept = Absent \/ AtHome(o.ref, kept, keys, edits)
    BY <2>3
  <2> HIDE DEF kept
  <2>5. ASSUME NEW p \in Refs
        PROVE  secrets'[p] = Absent \/ AtHome(p, secrets'[p], keys, edits)
    <3>1. CASE p = o.ref
      <4>1. secrets'[p] = kept
        BY <2>1, <2>2, <3>1 DEF SecretsFile
      <4>2. QED
        BY <2>4, <3>1, <4>1
    <3>2. CASE p # o.ref
      <4>1. secrets'[p] = o.file[p]
        BY <2>1, <2>2, <3>2 DEF SecretsFile
      <4>2. QED
        BY <1>1, <2>1, <4>1 DEF Brings
    <3>3. QED
      BY <3>1, <3>2
  <2>6. Kept(keys, edits, keys', edits') /\ edits' \in Nat
    BY <1>0, <2>1 DEF Kept
  <2>7. \A p \in Refs : secrets'[p] = Absent \/ AtHome(p, secrets'[p], keys', edits')
    BY <2>1, <2>5
  <2>8. Brings(NoRequest, profiles', keys', edits')
    BY <1>2, <2>1
  <2>9. QED
    BY <2>1, <2>6, <2>7, <2>8, KeysMove
<1>6. QED
  BY <1>3, <1>4, <1>5

\* Only a key that is at home is sent, and resolve_secret sends it to the profile it
\* is bound to.
LEMMA KeysModel ==
  ASSUME PlansInv, KeysInv, NEW q \in Requests,
         \/ BindProfile(q) \/ CheckCredential(q) \/ CreateAdapter(q) \/ Send(q)
         \/ KeepPreview(q) \/ FetchPreview(q) \/ PopPreview(q) \/ StartRun(q)
  PROVE  KeysInv'
<1> DEFINE o == request[q]
<1>0. o \in Requesting /\ Carries(o, DOMAIN previews) /\ edits \in Nat /\ secrets \in SecretsFile
  BY Parts
<1>1. /\ o.op \in Planning /\ UNCHANGED <<profiles, secrets, keys, edits>>
      /\ sent' = sent \/ (Send(q) /\ sent' = sent \cup KeySent(o.adapter, o.ref))
  BY DEF BindProfile, CheckCredential, CreateAdapter, Send, KeepPreview, FetchPreview, PopPreview,
         StartRun, At, Planning, settings
<1>2. PICK r : Set(q, r) /\ r.op \notin {"key", "forget"}
  <2>1. CASE Leave(q)
    BY <2>1 DEF Leave, NoRequest
  <2>2. ASSUME NEW r, Set(q, r), r.op = o.op
        PROVE  \E s : Set(q, s) /\ s.op \notin {"key", "forget"}
    BY <1>1, <2>2 DEF Planning
  <2>3. \A at : [o EXCEPT !.at = at].op = o.op
    BY <1>0 DEF Requesting
  <2>4. CASE BindProfile(q) /\ ~Leave(q)
    <3>1. Set(q, [o EXCEPT !.bound = profiles[o.ref], !.at = "credential"])
      BY <2>4 DEF BindProfile
    <3>2. [o EXCEPT !.bound = profiles[o.ref], !.at = "credential"].op = o.op
      BY <1>0 DEF Requesting
    <3>3. QED
      BY <2>2, <3>1, <3>2
  <2>5. CASE CheckCredential(q) /\ ~Leave(q)
    <3>1. Set(q, [o EXCEPT !.at = IF o.token = 0 THEN "adapter" ELSE "fetch"])
      BY <2>5 DEF CheckCredential
    <3>2. QED
      BY <2>2, <2>3, <3>1
  <2>6. CASE CreateAdapter(q) /\ ~Leave(q)
    <3>1. Set(q, [o EXCEPT !.adapter = profiles[o.ref], !.at = "send"])
      BY <2>6 DEF CreateAdapter
    <3>2. [o EXCEPT !.adapter = profiles[o.ref], !.at = "send"].op = o.op
      BY <1>0 DEF Requesting
    <3>3. QED
      BY <2>2, <3>1, <3>2
  <2>7. CASE Send(q) /\ ~Leave(q)
    <3>1. PICK i \in Intents :
            Set(q, [o EXCEPT !.parsed = [intent |-> i, by |-> o.adapter], !.at = "done"])
      BY <2>7 DEF Send
    <3>2. [o EXCEPT !.parsed = [intent |-> i, by |-> o.adapter], !.at = "done"].op = o.op
      BY <1>0 DEF Requesting
    <3>3. QED
      BY <2>2, <3>1, <3>2
  <2>8. CASE FetchPreview(q) /\ ~Leave(q)
    <3>1. Set(q, [o EXCEPT !.parsed = previews[o.token].parsed, !.at = "pop"])
      BY <2>8 DEF FetchPreview
    <3>2. [o EXCEPT !.parsed = previews[o.token].parsed, !.at = "pop"].op = o.op
      BY <1>0 DEF Requesting
    <3>3. QED
      BY <2>2, <3>1, <3>2
  <2>9. CASE PopPreview(q)
    BY <2>2, <2>3, <2>9 DEF PopPreview
  <2>10. CASE KeepPreview(q) \/ StartRun(q)
    BY <2>1, <2>10 DEF KeepPreview, StartRun
  <2>11. QED
    BY <2>1, <2>4, <2>5, <2>6, <2>7, <2>8, <2>9, <2>10
<1>3. ASSUME Send(q), NEW s \in KeySent(o.adapter, o.ref)
      PROVE  s.key \in 1..edits /\ s.ref = keys[s.key].ref /\ s.to \in keys[s.key].stood
  <2> DEFINE p == o.ref
  <2>1. /\ secrets[p] # Absent /\ secrets[p].bound = o.adapter
        /\ s = [key |-> secrets[p].key, ref |-> p, to |-> o.adapter]
    BY <1>3 DEF KeySent, Fits
  <2>2. p \in Refs
    BY <1>0, <1>1 DEF Carries
  <2>3. AtHome(p, secrets[p], keys, edits)
    BY <2>1, <2>2 DEF KeysInv
  <2>4. QED
    BY <2>1, <2>3 DEF AtHome
<1>4. Kept(keys, edits, keys', edits') /\ edits' \in Nat
  BY <1>0, <1>1 DEF Kept
<1>5. Brings(r, profiles', keys', edits') /\ \A p \in Refs : secrets'[p] = secrets[p]
  BY <1>1, <1>2 DEF Brings
<1>6. \A s \in sent' : s \in sent
        \/ (s.key \in 1..edits' /\ s.ref = keys'[s.key].ref /\ s.to \in keys'[s.key].stood)
  BY <1>1, <1>3
<1>7. QED
  BY <1>1, <1>2, <1>4, <1>5, <1>6, KeysMove

LEMMA KeysInvStep == PlansInv /\ KeysInv /\ [Next]_vars => KeysInv'
<1>1. CASE Next
  BY <1>1, KeysBegin, KeysSettings, KeysModel DEF Next
<1>2. ASSUME PlansInv, KeysInv, UNCHANGED vars PROVE KeysInv'
  BY <1>2 DEF vars, KeysInv, KeyGoesHome
<1>3. QED
  BY <1>1, <1>2

-----------------------------------------------------------------------------

\* A key is only ever sent for the reference it came for, and to a profile that stood
\* there between its arrival and set_secret's look (set_secret, resolve_secret),
\* whoever replaces the files between whichever two looks at them, with whatever they
\* read before.
THEOREM KeysGoHome == Spec => []KeyGoesHome
<1>1. Spec => []PlansInv /\ []KeysInv
  BY InitPlansInv, PlansInvStep, InitKeysInv, KeysInvStep, PTL DEF Spec
<1>2. KeysInv => KeyGoesHome
  BY DEF KeysInv
<1>3. QED
  BY <1>1, <1>2, PTL

\* Every run that starts for a runtime profile with compile_intent is bound to the
\* profile whose model read its goal (_provider_for_binding,
\* _preview_binding_for_start), through any number of previews, edits, confirmations
\* and concurrent starts; for any runtime profile what it starts with is well formed.
THEOREM RunsAreBound == Spec => []RunsBound
BY PlansInvHolds, PTL DEF PlansInv, RunsBound

(***************************************************************************)
(* Evidence and science                                                    *)
(***************************************************************************)

\* What the tool that made a checked of its inputs, and that they are in s.
Provenance(a, s) ==
  /\ a.kind = "mapping" => a.request \in s /\ Acceptable(a.reply, a.request)
  /\ a.kind = "report" =>
       /\ a.bundle \in s /\ a.mapping \in s /\ a.mapping.kind = "mapping"
       /\ SameSource(a.bundle, a.mapping)
       /\ ~a.blocked => \A r \in Mapped(a.mapping) :
                          ~Issue(r) /\ ~Conflicting(Mapped(a.mapping), r)
  /\ a.kind = "review bundle" => a.report \in s /\ a.report.kind = "report"
  /\ a.kind = "dataset" =>
       /\ a.review \in s /\ a.review.artifact \in s /\ a.review.artifact.kind = "review bundle"
       /\ Exportable(a.review.artifact, a.review)
       /\ a.rows = {Row(r, a.review.artifact) : r \in Mapped(a.review.artifact.report.mapping)}

EvidenceInv == \A a \in store : Provenance(a, store)

-----------------------------------------------------------------------------

LEMMA InitEvidenceInv == ScienceInit => EvidenceInv
<1> SUFFICES ASSUME ScienceInit PROVE EvidenceInv
  OBVIOUS
<1>1. \A a \in store : a.kind = "document"
  BY DEF ScienceInit, EvidenceInit
<1>2. QED
  BY <1>1 DEF EvidenceInv, Provenance

\* Publishing something keeps the provenance of what was there.
LEMMA PublishKeeps ==
  ASSUME EvidenceInv, NEW a, Publish(a), Provenance(a, store)
  PROVE  EvidenceInv'
<1>1. store' = store \cup {a}
  BY DEF Publish
<1>2. ASSUME NEW b \in store' PROVE Provenance(b, store')
  <2>1. Provenance(b, store)
    BY <1>1, <1>2 DEF EvidenceInv
  <2>2. QED
    BY <1>1, <2>1 DEF Provenance
<1>3. QED
  BY <1>2 DEF EvidenceInv

LEMMA MapStep ==
  ASSUME EvidenceInv, NEW b \in Of("bundle"), Map(b)
  PROVE  EvidenceInv'
<1>1. PICK reply \in Replies : Acceptable(reply, b) /\ Publish(Mapping(b, reply))
  BY DEF Map
<1>2. b \in store
  BY DEF Of
<1>3. Provenance(Mapping(b, reply), store)
  BY <1>1, <1>2 DEF Provenance, Mapping
<1>4. QED
  BY <1>1, <1>3, PublishKeeps

LEMMA ValidateStep ==
  ASSUME EvidenceInv, NEW b \in Of("bundle"), NEW m \in Of("mapping"), Validate(b, m)
  PROVE  EvidenceInv'
<1> DEFINE flagged == {r \in Mapped(m) : Issue(r) \/ Conflicting(Mapped(m), r)}
           report == Report(b, m, flagged)
<1>1. SameSource(b, m) /\ Publish(report)
  BY DEF Validate
<1>2. /\ b \in store /\ m \in store /\ m.kind = "mapping"
  BY DEF Of
<1>3. /\ report.kind = "report" /\ report.bundle = b /\ report.mapping = m
      /\ report.blocked = (flagged # {})
  BY DEF Report
<1>4. ~report.blocked => \A r \in Mapped(m) : ~Issue(r) /\ ~Conflicting(Mapped(m), r)
  BY <1>3
<1> HIDE DEF report, flagged
<1>5. Provenance(report, store)
  BY <1>1, <1>2, <1>3, <1>4 DEF Provenance
<1>6. QED
  BY <1>1, <1>5, PublishKeeps

LEMMA ReviewStep ==
  ASSUME EvidenceInv,
         \/ \E d \in Of("document") : Extract(d)
         \/ \E d \in Of("document"), b \in Of("bundle"), m \in Of("mapping"), r \in Of("report") :
              Prepare(d, b, m, r)
         \/ \E a \in Of("document") \cup Of("review bundle"), decision \in {"APPROVED", "REJECTED"} :
              Review(a, decision)
  PROVE  EvidenceInv'
<1>1. ASSUME NEW d \in Of("document"), Extract(d) PROVE EvidenceInv'
  <2>1. Publish(Bundle(d.name))
    BY <1>1 DEF Extract
  <2>2. Provenance(Bundle(d.name), store)
    BY DEF Provenance, Bundle
  <2>3. QED
    BY <2>1, <2>2, PublishKeeps
<1>2. ASSUME NEW r \in Of("report"), Publish(ReviewBundle(r)) PROVE EvidenceInv'
  <2>1. Provenance(ReviewBundle(r), store)
    BY DEF Provenance, ReviewBundle, Of
  <2>2. QED
    BY <1>2, <2>1, PublishKeeps
<1>3. ASSUME NEW a, NEW decision, Review(a, decision) PROVE EvidenceInv'
  <2>1. Provenance(ReviewRecord(a, decision), store) /\ Publish(ReviewRecord(a, decision))
    BY <1>3 DEF Provenance, ReviewRecord, Review
  <2>2. QED
    BY <2>1, PublishKeeps
<1>4. QED
  BY <1>1, <1>2, <1>3 DEF Prepare

LEMMA ExportStep ==
  ASSUME EvidenceInv, NEW b \in Of("review bundle"), NEW review \in Of("review"), Export(b, review)
  PROVE  EvidenceInv'
<1> DEFINE d == Dataset(review, {Row(r, b) : r \in Mapped(b.report.mapping)})
<1>1. Exportable(b, review) /\ Publish(d)
  BY DEF Export
<1>2. /\ b \in store /\ b.kind = "review bundle" /\ review \in store /\ review.artifact = b
  BY <1>1 DEF Of, Exportable
<1>3. /\ d.kind = "dataset" /\ d.review = review
      /\ d.rows = {Row(r, b) : r \in Mapped(b.report.mapping)}
  BY DEF Dataset
<1> HIDE DEF d
<1>4. Provenance(d, store)
  BY <1>1, <1>2, <1>3 DEF Provenance
<1>5. QED
  BY <1>1, <1>4, PublishKeeps

LEMMA EvidenceInvStep == EvidenceInv /\ [ScienceNext]_both => EvidenceInv'
<1>1. ASSUME EvidenceInv, EvidenceNext PROVE EvidenceInv'
  BY <1>1, MapStep, ValidateStep, ReviewStep, ExportStep DEF EvidenceNext
<1>2. ASSUME EvidenceInv, UNCHANGED store PROVE EvidenceInv'
  BY <1>2 DEF EvidenceInv
<1>3. QED
  BY <1>1, <1>2 DEF ScienceNext, both

LEMMA EvidenceInvHolds == ScienceSpec => []EvidenceInv
<1>1. ScienceSpec => ScienceInit /\ [][ScienceNext]_both
  BY DEF ScienceSpec
<1>2. QED
  BY <1>1, InitEvidenceInv, EvidenceInvStep, PTL


-----------------------------------------------------------------------------
(* What a dataset inherits *)

\* The way back from a dataset, through the approved bundle and its report, to the
\* mapping and the request it answered.
LEMMA WayBack ==
  ASSUME EvidenceInv, NEW d \in Of("dataset"), NEW b, b = d.review.artifact,
         NEW m, m = b.report.mapping
  PROVE  /\ d.review \in store /\ b \in Of("review bundle") /\ Exportable(b, d.review)
         /\ d.rows = {Row(r, b) : r \in Mapped(m)}
         /\ b.report.bundle \in store /\ m.request \in store /\ SameSource(b.report.bundle, m)
         /\ Acceptable(m.reply, m.request)
         /\ \A r \in Mapped(m) : ~Issue(r) /\ ~Conflicting(Mapped(m), r)
<1>1. d \in store /\ d.kind = "dataset" /\ Provenance(d, store)
  BY DEF Of, EvidenceInv
<1>2. /\ d.review \in store /\ b \in store /\ b.kind = "review bundle" /\ Exportable(b, d.review)
      /\ d.rows = {Row(r, b) : r \in Mapped(m)}
  BY <1>1 DEF Provenance
<1>3. b.report \in store /\ b.report.kind = "report" /\ ~b.report.blocked
  BY <1>2 DEF EvidenceInv, Provenance, Exportable
<1>4. /\ b.report.bundle \in store /\ m \in store /\ m.kind = "mapping"
      /\ SameSource(b.report.bundle, m)
      /\ \A r \in Mapped(m) : ~Issue(r) /\ ~Conflicting(Mapped(m), r)
  BY <1>3 DEF EvidenceInv, Provenance
<1>5. m.request \in store /\ Acceptable(m.reply, m.request)
  BY <1>4 DEF EvidenceInv, Provenance
<1>6. QED
  BY <1>2, <1>4, <1>5 DEF Of

\* A record without an issue says all that a row needs.
LEMMA RecordComplete ==
  ASSUME NEW r, ~Issue(r), WellFormed(r)
  PROVE  /\ r.molecule # None /\ r.condition \notin {None, "UNKNOWN"}
         /\ Normal(r).value # None /\ Normal(r).unit # None /\ Normal(r).value \in 0..Whole
<1>1. Resolved(r) /\ Normal(r).normalized /\ Specified(r)
  BY DEF Issue
<1>2. None \notin {Normal(r).value, Normal(r).unit} /\ Normal(r).value \in 0..Whole
  BY <1>1 DEF WellFormed
<1>3. QED
  BY <1>1, <1>2 DEF Resolved, Specified

\* A row can be followed back, and it is what somebody approved: every record of
\* the approved mapping, each complete, validated and cited (export,
\* assert_matches, ReviewBundleBuilder, OledRecord).
LEMMA DatasetAsReviewed ==
  ASSUME EvidenceInv, NEW d \in Of("dataset")
  PROVE  LET b == d.review.artifact IN
         /\ d.review \in store /\ d.review.decision = "APPROVED" /\ b \in Of("review bundle")
         /\ {row.id : row \in d.rows} = {r.id : r \in Mapped(b.report.mapping)}
         /\ \A row \in d.rows :
              /\ row.mapping = b.report.mapping /\ row.bundle = b.report.bundle
              /\ None \notin {row.molecule, row.value, row.unit, row.condition}
              /\ row.condition # "UNKNOWN"
              /\ row.cited # {} /\ row.cited \subseteq Candidates(row.mapping.request.document)
              /\ \A c \in row.cited : Source[c.document] = row.source
              /\ row.mapping.request \in store /\ row.bundle \in store
<1> DEFINE b == d.review.artifact
           m == b.report.mapping
<1>1. /\ d.review \in store /\ b \in Of("review bundle") /\ Exportable(b, d.review)
      /\ d.rows = {Row(r, b) : r \in Mapped(m)}
      /\ b.report.bundle \in store /\ m.request \in store /\ SameSource(b.report.bundle, m)
      /\ Acceptable(m.reply, m.request)
      /\ \A r \in Mapped(m) : ~Issue(r)
  BY WayBack
<1>2. \A r \in Mapped(m) : Row(r, b).id = r.id
  BY DEF Row
<1>3. ASSUME NEW row \in d.rows
      PROVE  /\ row.mapping = m /\ row.bundle = b.report.bundle
             /\ None \notin {row.molecule, row.value, row.unit, row.condition}
             /\ row.condition # "UNKNOWN"
             /\ row.cited # {} /\ row.cited \subseteq Candidates(row.mapping.request.document)
             /\ \A c \in row.cited : Source[c.document] = row.source
             /\ row.mapping.request \in store /\ row.bundle \in store
  <2>1. PICK r \in Mapped(m) : row = Row(r, b)
    BY <1>1
  <2>2. WellFormed(r) /\ Evidenced(r, m.request)
    BY <1>1 DEF Acceptable, Mapped
  <2>3. /\ r.molecule # None /\ r.condition \notin {None, "UNKNOWN"}
        /\ Normal(r).value # None /\ Normal(r).unit # None
    BY <1>1, <2>2, RecordComplete
  <2>4. Cited(r) # {} /\ Cited(r) \subseteq Candidates(m.request.document)
    BY <2>2 DEF Evidenced, Cited
  <2>5. \A c \in Cited(r) : Source[c.document] = Source[b.report.bundle.document]
    BY <1>1 DEF SameSource
  <2>6. /\ row.mapping = m /\ row.bundle = b.report.bundle /\ row.cited = Cited(r)
        /\ row.molecule = r.molecule /\ row.condition = r.condition
        /\ row.value = Normal(r).value /\ row.unit = Normal(r).unit
        /\ row.source = Source[b.report.bundle.document]
    BY <2>1 DEF Row
  <2>7. QED
    BY <1>1, <2>3, <2>4, <2>5, <2>6
<1>4. {row.id : row \in d.rows} = {r.id : r \in Mapped(m)}
  BY <1>1, <1>2, ZenonT(60)
<1>5. QED
  BY <1>1, <1>3, <1>4 DEF Exportable

\* Two rows of a dataset that are about the same thing are two records that the
\* validation compared with each other.
LEMMA DatasetAgrees ==
  ASSUME EvidenceInv, NEW d \in Of("dataset"), NEW x \in d.rows, NEW y \in d.rows,
         <<x.molecule, x.unit, x.condition>> = <<y.molecule, y.unit, y.condition>>
  PROVE  x.value - y.value \in -Tolerance..Tolerance
<1> DEFINE b == d.review.artifact
           m == b.report.mapping
<1>1. /\ d.rows = {Row(r, b) : r \in Mapped(m)}
      /\ Acceptable(m.reply, m.request)
      /\ \A r \in Mapped(m) : ~Issue(r) /\ ~Conflicting(Mapped(m), r)
  BY WayBack
<1>2. PICK r \in Mapped(m), s \in Mapped(m) : x = Row(r, b) /\ y = Row(s, b)
  BY <1>1
<1>3. Normal(r).value \in Int
  <2>1. WellFormed(r)
    BY <1>1 DEF Acceptable, Mapped
  <2>2. Normal(r).value \in 0..Whole
    BY <1>1, <2>1, RecordComplete
  <2>3. QED
    BY <2>2 DEF Whole
<1>4. x.value = Normal(r).value /\ y.value = Normal(s).value
  BY <1>2 DEF Row
<1>5. CASE r = s
  <2>1. x.value - y.value = 0
    BY <1>3, <1>4, <1>5
  <2>2. QED
    BY <2>1, EvidenceAssumption
<1>6. CASE r # s
  <2>1. Key(r) = Key(s)
    BY <1>2 DEF Row, Key
  <2>2. Close(r, s)
    BY <1>1, <1>6, <2>1 DEF Conflicting
  <2>3. QED
    BY <1>4, <2>2 DEF Close
<1>7. QED
  BY <1>5, <1>6

\* Every dataset is what somebody approved, whatever artifacts of the store the
\* tools were called with.
THEOREM DatasetsAsReviewed == ScienceSpec => []ExportedAsReviewed
<1>1. ASSUME EvidenceInv PROVE ExportedAsReviewed
  BY <1>1, DatasetAsReviewed DEF ExportedAsReviewed, RowsTraceable
<1>2. QED
  BY <1>1, EvidenceInvHolds, PTL

\* No two rows about one molecule, unit and condition disagree by more than the
\* tolerance (validate_records).
THEOREM DatasetsAgree == ScienceSpec => []RowsAgree
<1>1. ASSUME EvidenceInv PROVE RowsAgree
  BY <1>1, DatasetAgrees DEF RowsAgree
<1>2. QED
  BY <1>1, EvidenceInvHolds, PTL


-----------------------------------------------------------------------------
(* The two clocks *)

StepNames == {"none", "directory", "upload", "command", "fetch output", "fetch report"}

\* A command starts within the connect timeout and is dead, under timeout(1), when
\* its limit and the grace are over; the host's clock is ahead by the connection.
Clocks ==
  /\ local.step \in StepNames /\ local.elapsed \in Nat
  /\ local = [step |-> local.step, elapsed |-> local.elapsed]
  /\ remote.elapsed \in Nat
  /\ remote = [state |-> remote.state, elapsed |-> remote.elapsed, attempts |-> remote.attempts,
               found |-> remote.found, scores |-> remote.scores]
  /\ local.step \in {"directory", "upload"} => remote.state = "none"
  /\ Running => local.step \in {"none", "command"} /\ remote.elapsed <= Walltime + KillGrace
  /\ local.step = "command" /\ remote.state = "none" => local.elapsed <= ConnectTimeout
  /\ local.step = "command" /\ Running => local.elapsed <= remote.elapsed + ConnectTimeout

LEMMA Limits ==
  /\ Walltime \in Nat /\ ConnectTimeout \in Nat /\ KillGrace \in Nat
  /\ LocalLimit \in Nat /\ Walltime + KillGrace + ConnectTimeout < LocalLimit
BY ScienceAssumption DEF LocalLimit

LEMMA SmallerOfTwo == \A a, b \in Nat : a <= b => Min({a, b}) = a
<1> SUFFICES ASSUME NEW a \in Nat, NEW b \in Nat, a <= b PROVE Min({a, b}) = a
  OBVIOUS
<1>1. \E x \in {a, b} : \A y \in {a, b} : x <= y
  OBVIOUS
<1>2. \A x \in {a, b} : (\A y \in {a, b} : x <= y) => x = a
  OBVIOUS
<1>3. QED
  BY <1>1, <1>2 DEF Min

\* A step of the host that begins no wait but in the state it expects.
LEMMA WaitKeeps ==
  ASSUME Clocks, NEW step \in StepNames, Wait(step), UNCHANGED remote,
         step \in {"directory", "upload", "command"} => remote.state = "none",
         step # "none" => ~Running
  PROVE  Clocks'
<1>1. local' = [step |-> step, elapsed |-> 0]
  BY DEF Wait
<1>2. QED
  BY <1>1, Limits DEF Clocks, Running

\* The next of the three transfers.
LEMMA NextStep ==
  /\ Steps[1 + CHOOSE i \in 1..4 : Steps[i] = "directory"] = "upload"
  /\ Steps[1 + CHOOSE i \in 1..4 : Steps[i] = "upload"] = "command"
  /\ Steps[1 + CHOOSE i \in 1..4 : Steps[i] = "fetch output"] = "fetch report"
<1>1. /\ Steps[1] = "directory" /\ Steps[2] = "upload" /\ Steps[3] = "command"
      /\ Steps[4] = "fetch output" /\ Steps[5] = "fetch report"
  BY DEF Steps
<1>2. \A i \in 1..4 : i = 1 \/ i = 2 \/ i = 3 \/ i = 4
  OBVIOUS
<1>3. 1 \in 1..4 /\ 2 \in 1..4 /\ 4 \in 1..4 /\ 1 + 1 = 2 /\ 1 + 2 = 3 /\ 1 + 4 = 5
  OBVIOUS
<1>4. /\ \A i \in 1..4 : Steps[i] = "directory" <=> i = 1
      /\ \A i \in 1..4 : Steps[i] = "upload" <=> i = 2
      /\ \A i \in 1..4 : Steps[i] = "fetch output" <=> i = 4
  BY <1>1, <1>2
<1>5. (CHOOSE i \in 1..4 : Steps[i] = "directory") = 1
  BY <1>3, <1>4
<1>6. (CHOOSE i \in 1..4 : Steps[i] = "upload") = 2
  BY <1>3, <1>4
<1>7. (CHOOSE i \in 1..4 : Steps[i] = "fetch output") = 4
  BY <1>3, <1>4
<1>8. QED
  BY <1>1, <1>3, <1>5, <1>6, <1>7

LEMMA InitClocks == ScienceInit => Clocks
BY DEF ScienceInit, NoWait, NoCommand, Clocks, StepNames, Running

LEMMA HostKeepsClocks ==
  ASSUME Clocks, Host
  PROVE  Clocks'
<1>1. CASE PrepareUpload \/ PreflightUpload \/ PreflightReviewed \/ Evaluate
  <2>1. UNCHANGED <<local, remote>>
    BY <1>1 DEF PrepareUpload, PreflightUpload, PreflightReviewed, Evaluate
  <2>2. QED
    BY <2>1 DEF Clocks, Running
<1>2. CASE TransferFails \/ ConnectionLost \/ Refused \/ CommandFails \/ TimedOut
  <2>1. local' = NoWait /\ UNCHANGED remote
    BY <1>2 DEF TransferFails, ConnectionLost, Refused, CommandFails, TimedOut, Fail
  <2>2. QED
    BY <2>1 DEF Clocks, Running, NoWait, StepNames
<1>3. CASE BeginStage
  <2>1. local' = [step |-> "directory", elapsed |-> 0] /\ remote' = NoCommand
    BY <1>3 DEF BeginStage, Wait
  <2>2. QED
    BY <2>1 DEF Clocks, Running, NoCommand, StepNames
<1>4. CASE StageEnds
  <2>1. local' = NoWait /\ remote' = NoCommand
    BY <1>4 DEF StageEnds
  <2>2. QED
    BY <2>1 DEF Clocks, Running, NoWait, NoCommand, StepNames
<1>5. CASE Transfer
  <2>1. /\ local.step \in {"directory", "upload", "fetch output"} /\ UNCHANGED remote
        /\ Wait(Steps[1 + CHOOSE i \in 1..4 : Steps[i] = local.step])
    BY <1>5 DEF Transfer
  <2>2. ~Running
    BY <2>1 DEF Clocks
  <2>3. CASE local.step = "directory"
    BY <2>1, <2>2, <2>3, NextStep, WaitKeeps DEF Clocks, StepNames
  <2>4. CASE local.step = "upload"
    BY <2>1, <2>2, <2>4, NextStep, WaitKeeps DEF Clocks, StepNames
  <2>5. CASE local.step = "fetch output"
    BY <2>1, <2>2, <2>5, NextStep, WaitKeeps, ZenonT(60) DEF Clocks, StepNames
  <2>6. QED
    BY <2>1, <2>3, <2>4, <2>5
<1>6. CASE CommandReturns
  <2>1. Wait("fetch output") /\ UNCHANGED remote /\ ~Running
    BY <1>6 DEF CommandReturns, Running
  <2>2. QED
    BY <2>1, WaitKeeps DEF StepNames
<1>7. QED
  BY <1>1, <1>2, <1>3, <1>4, <1>5, <1>6 DEF Host

LEMMA MachineKeepsClocks ==
  ASSUME Clocks, Machine
  PROVE  Clocks'
<1>1. UNCHANGED local
  BY DEF Machine, CommandStarts, Trained, Attempt, Generated, Predicted, CommandBreaks, Terminated,
         Rest
<1>2. CASE CommandStarts
  <2>1. /\ local.step = "command" /\ remote.state = "none"
        /\ remote' = [NoCommand EXCEPT !.state = "running"]
    BY <1>2 DEF CommandStarts
  <2>2. QED
    BY <1>1, <2>1, Limits DEF Clocks, Running, NoCommand
<1>3. CASE Attempt
  <2>1. PICK n, f : remote' = [remote EXCEPT !.attempts = n, !.found = f]
    BY <1>3 DEF Attempt
  <2>2. QED
    BY <1>1, <2>1 DEF Clocks, Running
<1>4. CASE Trained \/ Generated \/ Predicted \/ CommandBreaks \/ Terminated
  <2>1. /\ remote'.state \in {"done", "broken"} /\ Running /\ remote'.elapsed = remote.elapsed
        /\ remote' = [state |-> remote'.state, elapsed |-> remote'.elapsed,
                      attempts |-> remote'.attempts, found |-> remote'.found,
                      scores |-> remote'.scores]
    BY <1>4 DEF Trained, Generated, Predicted, CommandBreaks, Terminated, Ended, Clocks
  <2>2. QED
    BY <1>1, <2>1 DEF Clocks, Running
<1>5. QED
  BY <1>2, <1>3, <1>4 DEF Machine

LEMMA TickKeepsClocks ==
  ASSUME Clocks, Tick
  PROVE  Clocks'
<1>1. /\ remote.elapsed \in Nat /\ local.elapsed \in Nat /\ local.step \in StepNames
      /\ Walltime \in Nat /\ KillGrace \in Nat /\ ConnectTimeout \in Nat /\ LocalLimit \in Nat
      /\ Walltime + KillGrace + ConnectTimeout < LocalLimit
  BY Limits DEF Clocks
<1>2. Running => remote' = [remote EXCEPT !.elapsed = @ + 1]
                 /\ remote.elapsed + 1 <= Walltime + KillGrace
  <2>1. ASSUME Running PROVE remote.elapsed + 1 <= Walltime + KillGrace
    BY <1>1, <2>1 DEF Tick, Overdue, Wrapped
  <2>2. ASSUME Running PROVE Min({remote.elapsed + 1, LocalLimit}) = remote.elapsed + 1
    BY <1>1, <2>1, <2>2, SmallerOfTwo
  <2>3. Running => remote' = [remote EXCEPT !.elapsed = Min({remote.elapsed + 1, LocalLimit})]
    BY DEF Tick
  <2>4. QED
    BY <2>1, <2>2, <2>3
<1>3. ~Running => remote' = remote
  BY DEF Tick
<1>4. /\ local.step = "command" => local' = [local EXCEPT !.elapsed = @ + 1]
      /\ local.step # "command" => local' = local
      /\ local.step = "command" /\ remote.state = "none" => local.elapsed < ConnectTimeout
  BY DEF Tick
<1>5. /\ remote'.state = remote.state /\ remote'.elapsed \in Nat
      /\ Running => remote'.elapsed = remote.elapsed + 1
      /\ remote' = [state |-> remote'.state, elapsed |-> remote'.elapsed,
                    attempts |-> remote'.attempts, found |-> remote'.found,
                    scores |-> remote'.scores]
  BY <1>1, <1>2, <1>3 DEF Clocks
<1>6. /\ local'.step = local.step /\ local'.elapsed \in Nat
      /\ local.step = "command" => local'.elapsed = local.elapsed + 1
      /\ local' = [step |-> local'.step, elapsed |-> local'.elapsed]
  BY <1>1, <1>4 DEF Clocks
<1>7. QED
  BY <1>1, <1>2, <1>4, <1>5, <1>6 DEF Clocks, Running

LEMMA ClocksStep == Clocks /\ [ScienceNext]_both => Clocks'
<1>1. CASE UNCHANGED <<local, remote>>
  BY <1>1 DEF Clocks, Running
<1>2. QED
  BY <1>1, HostKeepsClocks, MachineKeepsClocks, TickKeepsClocks DEF ScienceNext, both, science

\* The host never gives a command up for its own time limit while the command still
\* runs, whatever the limits are (_subprocess_timeout_sec, _render_remote_command).
THEOREM LimitsFit == ScienceSpec => TimeLimitLeavesNothingRunning
<1>1. ScienceSpec => ScienceInit /\ [][ScienceNext]_both
  BY DEF ScienceSpec
<1>2. ASSUME Clocks PROVE local.step = "command" /\ local.elapsed = LocalLimit => ~Running
  BY <1>2, Limits DEF Clocks
<1>3. Clocks => [local.step = "command" /\ local.elapsed = LocalLimit /\ local' = NoWait
                  => ~Running]_both
  BY <1>2
<1>4. QED
  BY <1>1, <1>3, InitClocks, ClocksStep, PTL DEF TimeLimitLeavesNothingRunning

(***************************************************************************)
(* Folds: numbers up to n, and the rows of results                         *)
(***************************************************************************)

LEMMA LeastOf ==
  ASSUME NEW T \in SUBSET Nat, T # {}
  PROVE  \E x \in T : \A y \in T : x <= y
<1> DEFINE R == {p \in Nat \X Nat : p[1] < p[2]}
<1>1. IsWellFoundedOn(R, Nat)
  BY NatLessThanWellFounded DEF OpToRel
<1>2. \A x, y \in Nat : <<y, x>> \in R <=> y < x
  OBVIOUS
<1> HIDE DEF R
<1>3. PICK x \in T : \A y \in T : ~(<<y, x>> \in R)
  BY <1>1, WFMin
<1>4. ASSUME NEW y \in T PROVE x <= y
  <2>1. x \in Nat /\ y \in Nat /\ ~(y < x)
    BY <1>2, <1>3
  <2>2. QED
    BY <2>1
<1>5. QED
  BY <1>4

\* What holds of 0, and of each number that follows one it holds of, holds up to n.
LEMMA UpTo ==
  ASSUME NEW n \in Nat, NEW H, 0 \in H, \A k \in 0..(n - 1) : k \in H => k + 1 \in H
  PROVE  0..n \subseteq H
<1> SUFFICES ASSUME ~(0..n \subseteq H) PROVE FALSE
  OBVIOUS
<1> DEFINE T == (0..n) \ H
<1>1. T \in SUBSET Nat /\ T # {}
  OBVIOUS
<1>2. PICK k \in T : \A y \in T : k <= y
  BY <1>1, LeastOf
<1>3. k # 0 /\ k \in 0..n /\ k \notin H
  OBVIOUS
<1>4. k - 1 \in 0..(n - 1) /\ k - 1 \in 0..n /\ ~(k <= k - 1) /\ (k - 1) + 1 = k
  BY <1>3
<1>5. k - 1 \in H
  BY <1>2, <1>4
<1>6. QED
  BY <1>3, <1>4, <1>5

\* The greatest of some numbers up to k is k when k is one of them.
LEMMA MaxIsLast ==
  ASSUME NEW k \in Nat, NEW s \in SUBSET (1..k), k \in s
  PROVE  Max(s) = k
<1>1. \A y \in s : y \in Nat /\ k >= y
  OBVIOUS
<1>2. \A x \in s : (\A y \in s : x >= y) => x = k
  BY <1>1
<1>3. QED
  BY <1>1, <1>2 DEF Max

\* Cleaning as a row of results, one for each number of records read.
LEMMA CleaningFold ==
  ASSUME NEW n \in Nat, NEW q, DOMAIN q = 1..n
  PROVE  \E r : /\ r[0] = Row0
                /\ \A k \in 0..(n - 1) : r[k + 1] = CleanOne(r[k], q[k + 1])
                /\ r[n] = FoldLeft(CleanOne, Row0, q)
<1> DEFINE Step(g, s) == IF s = {} THEN Row0 ELSE CleanOne(g[s \ {Max(s)}], q[Max(s)])
           Solves(g, k) == g = [s \in SUBSET (1..k) |-> Step(g, s)]
           H == {k \in Nat : \E g : Solves(g, k)}
           iter == CHOOSE g : Solves(g, n)
<1>1. FoldLeft(CleanOne, Row0, q) = iter[1..n]
  BY DEF FoldLeft, MapThenFoldSet
<1>2. 0 \in H
  <2> DEFINE g == [s \in SUBSET (1..0) |-> Row0]
  <2>1. \A s \in SUBSET (1..0) : s = {}
    OBVIOUS
  <2>2. Solves(g, 0)
    BY <2>1
  <2>3. QED
    BY <2>2
<1>3. ASSUME NEW k \in Nat, k \in H PROVE k + 1 \in H
  <2>1. PICK f : Solves(f, k)
    BY <1>3
  <2> DEFINE Old == SUBSET (1..k)
             New == SUBSET (1..(k + 1))
             g == [s \in New |-> IF k + 1 \in s THEN CleanOne(f[s \ {k + 1}], q[k + 1]) ELSE f[s]]
  <2>2. \A s \in New : k + 1 \notin s => s \in Old
    OBVIOUS
  <2>3. \A s \in New : k + 1 \in s => s \ {k + 1} \in Old /\ Max(s) = k + 1 /\ s # {}
    BY MaxIsLast
  <2>4. \A s \in Old : s \in New /\ k + 1 \notin s
    OBVIOUS
  <2>5. \A s \in Old : s # {} => s \ {Max(s)} \in Old
    OBVIOUS
  <2>6. \A s \in Old : f[s] = Step(f, s)
    BY <2>1
  <2>7. \A s \in Old : g[s] = f[s]
    BY <2>4
  <2> HIDE DEF Old, New
  <2>8. ASSUME NEW s \in New PROVE g[s] = Step(g, s)
    <3>1. CASE k + 1 \in s
      BY <2>3, <2>7, <3>1
    <3>2. CASE k + 1 \notin s
      <4>1. g[s] = f[s] /\ s \in Old
        BY <2>2, <2>7, <3>2
      <4>2. s # {} => g[s \ {Max(s)}] = f[s \ {Max(s)}]
        BY <2>5, <2>7, <4>1
      <4> HIDE DEF g
      <4>3. QED
        BY <2>6, <4>1, <4>2
    <3>3. QED
      BY <3>1, <3>2
  <2>9. g = [s \in New |-> g[s]]
    OBVIOUS
  <2>10. Solves(g, k + 1)
    <3> HIDE DEF g
    <3>1. [s \in New |-> g[s]] = [s \in New |-> Step(g, s)]
      BY <2>8
    <3>2. QED
      BY <2>9, <3>1 DEF New
  <2>11. QED
    <3> HIDE DEF Solves, g
    <3>1. k + 1 \in Nat /\ \E h : Solves(h, k + 1)
      BY <2>10
    <3>2. QED
      BY <3>1
<1>4. n \in H
  <2> HIDE DEF H
  <2>1. n \in 0..n /\ 0..(n - 1) \subseteq Nat
    OBVIOUS
  <2>2. 0..n \subseteq H
    BY <1>2, <1>3, <2>1, UpTo
  <2>3. QED
    BY <2>1, <2>2
<1>5. Solves(iter, n)
  <2> HIDE DEF Solves
  <2>1. \E g : Solves(g, n)
    BY <1>4
  <2>2. QED
    BY <2>1
<1>6. \A s \in SUBSET (1..n) : iter[s] = Step(iter, s)
  <2> HIDE DEF iter
  <2>1. QED
    BY <1>5
<1> DEFINE r == [k \in 0..n |-> iter[1..k]]
<1> HIDE DEF iter
<1>7. r[0] = Row0
  <2>1. 1..0 = {} /\ {} \in SUBSET (1..n) /\ 0 \in 0..n
    OBVIOUS
  <2>2. QED
    BY <1>6, <2>1
<1>8. ASSUME NEW k \in 0..(n - 1) PROVE r[k + 1] = CleanOne(r[k], q[k + 1])
  <2>1. /\ 1..(k + 1) \in SUBSET (1..n) /\ 1..(k + 1) # {}
        /\ k \in 0..n /\ k + 1 \in 0..n /\ k + 1 \in Nat /\ k + 1 \in 1..(k + 1)
    OBVIOUS
  <2>2. Max(1..(k + 1)) = k + 1
    BY <2>1, MaxIsLast
  <2>3. (1..(k + 1)) \ {k + 1} = 1..k
    OBVIOUS
  <2>4. iter[1..(k + 1)] = CleanOne(iter[1..k], q[k + 1])
    BY <1>6, <2>1, <2>2, <2>3
  <2>5. QED
    BY <2>1, <2>4
<1>9. r[n] = FoldLeft(CleanOne, Row0, q)
  BY <1>1
<1>10. QED
  <2> HIDE DEF r
  <2>1. QED
    BY <1>7, <1>8, <1>9

\* Picking as a row of results, one for each number of lines read.
LEMMA PickingFold ==
  ASSUME NEW base, NEW n \in Nat, NEW q, DOMAIN q = 1..n
  PROVE  \E r : /\ r[0] = base
                /\ \A k \in 0..(n - 1) : r[k + 1] = Keep(r[k], q[k + 1])
                /\ r[n] = FoldLeft(Keep, base, q)
<1> DEFINE Step(g, s) == IF s = {} THEN base ELSE Keep(g[s \ {Max(s)}], q[Max(s)])
           Solves(g, k) == g = [s \in SUBSET (1..k) |-> Step(g, s)]
           H == {k \in Nat : \E g : Solves(g, k)}
           iter == CHOOSE g : Solves(g, n)
<1>1. FoldLeft(Keep, base, q) = iter[1..n]
  BY DEF FoldLeft, MapThenFoldSet
<1>2. 0 \in H
  <2> DEFINE g == [s \in SUBSET (1..0) |-> base]
  <2>1. \A s \in SUBSET (1..0) : s = {}
    OBVIOUS
  <2>2. Solves(g, 0)
    BY <2>1
  <2>3. QED
    BY <2>2
<1>3. ASSUME NEW k \in Nat, k \in H PROVE k + 1 \in H
  <2>1. PICK f : Solves(f, k)
    BY <1>3
  <2> DEFINE Old == SUBSET (1..k)
             New == SUBSET (1..(k + 1))
             g == [s \in New |-> IF k + 1 \in s THEN Keep(f[s \ {k + 1}], q[k + 1]) ELSE f[s]]
  <2>2. \A s \in New : k + 1 \notin s => s \in Old
    OBVIOUS
  <2>3. \A s \in New : k + 1 \in s => s \ {k + 1} \in Old /\ Max(s) = k + 1 /\ s # {}
    BY MaxIsLast
  <2>4. \A s \in Old : s \in New /\ k + 1 \notin s
    OBVIOUS
  <2>5. \A s \in Old : s # {} => s \ {Max(s)} \in Old
    OBVIOUS
  <2>6. \A s \in Old : f[s] = Step(f, s)
    BY <2>1
  <2>7. \A s \in Old : g[s] = f[s]
    BY <2>4
  <2> HIDE DEF Old, New
  <2>8. ASSUME NEW s \in New PROVE g[s] = Step(g, s)
    <3>1. CASE k + 1 \in s
      BY <2>3, <2>7, <3>1
    <3>2. CASE k + 1 \notin s
      <4>1. g[s] = f[s] /\ s \in Old
        BY <2>2, <2>7, <3>2
      <4>2. s # {} => g[s \ {Max(s)}] = f[s \ {Max(s)}]
        BY <2>5, <2>7, <4>1
      <4> HIDE DEF g
      <4>3. QED
        BY <2>6, <4>1, <4>2
    <3>3. QED
      BY <3>1, <3>2
  <2>9. g = [s \in New |-> g[s]]
    OBVIOUS
  <2>10. Solves(g, k + 1)
    <3> HIDE DEF g
    <3>1. [s \in New |-> g[s]] = [s \in New |-> Step(g, s)]
      BY <2>8
    <3>2. QED
      BY <2>9, <3>1 DEF New
  <2>11. QED
    <3> HIDE DEF Solves, g
    <3>1. k + 1 \in Nat /\ \E h : Solves(h, k + 1)
      BY <2>10
    <3>2. QED
      BY <3>1
<1>4. n \in H
  <2> HIDE DEF H
  <2>1. n \in 0..n /\ 0..(n - 1) \subseteq Nat
    OBVIOUS
  <2>2. 0..n \subseteq H
    BY <1>2, <1>3, <2>1, UpTo
  <2>3. QED
    BY <2>1, <2>2
<1>5. Solves(iter, n)
  <2> HIDE DEF Solves
  <2>1. \E g : Solves(g, n)
    BY <1>4
  <2>2. QED
    BY <2>1
<1>6. \A s \in SUBSET (1..n) : iter[s] = Step(iter, s)
  <2> HIDE DEF iter
  <2>1. QED
    BY <1>5
<1> DEFINE r == [k \in 0..n |-> iter[1..k]]
<1> HIDE DEF iter
<1>7. r[0] = base
  <2>1. 1..0 = {} /\ {} \in SUBSET (1..n) /\ 0 \in 0..n
    OBVIOUS
  <2>2. QED
    BY <1>6, <2>1
<1>8. ASSUME NEW k \in 0..(n - 1) PROVE r[k + 1] = Keep(r[k], q[k + 1])
  <2>1. /\ 1..(k + 1) \in SUBSET (1..n) /\ 1..(k + 1) # {}
        /\ k \in 0..n /\ k + 1 \in 0..n /\ k + 1 \in Nat /\ k + 1 \in 1..(k + 1)
    OBVIOUS
  <2>2. Max(1..(k + 1)) = k + 1
    BY <2>1, MaxIsLast
  <2>3. (1..(k + 1)) \ {k + 1} = 1..k
    OBVIOUS
  <2>4. iter[1..(k + 1)] = Keep(iter[1..k], q[k + 1])
    BY <1>6, <2>1, <2>2, <2>3
  <2>5. QED
    BY <2>1, <2>4
<1>9. r[n] = FoldLeft(Keep, base, q)
  BY <1>1
<1>10. QED
  <2> HIDE DEF r
  <2>1. QED
    BY <1>7, <1>8, <1>9

(***************************************************************************)
(* Cleaning                                                                *)
(***************************************************************************)

\* Value, Finite and the rows of the property with the aim and the upload as parameters.
ValueFor(a, r) ==
  IF a.target = "homo_lumo_gap" /\ r.orbitals # None
  THEN r.orbitals.unoccupied - r.orbitals.occupied
  ELSE r.column

UsableUpTo(a, u, k) ==
  {i \in 1..k : u[i].shaped /\ u[i].smiles # None /\ ValueFor(a, u[i]) # None}

FirstUpTo(a, u, k) ==
  {i \in UsableUpTo(a, u, k) : \A j \in UsableUpTo(a, u, k) : j < i => u[j].smiles # u[i].smiles}

RowOf(a, r) == [smiles |-> r.smiles, value |-> ValueFor(a, r)]

\* rows are the first usable ones up to k, in order.
RowsUpTo(a, u, k, rows) ==
  /\ Len(rows) = Cardinality(FirstUpTo(a, u, k))
  /\ \A i \in FirstUpTo(a, u, k) :
       rows[Cardinality({j \in FirstUpTo(a, u, k) : j <= i})] = RowOf(a, u[i])

\* What cleaning has counted after k records.
CountsUpTo(a, u, k, c) ==
  /\ c = [rows |-> c.rows, seen |-> c.seen, invalid |-> c.invalid, duplicates |-> c.duplicates]
  /\ c.rows \in Seq({RowOf(a, u[i]) : i \in 1..k})
  /\ RowsUpTo(a, u, k, c.rows)
  /\ c.seen = {u[i].smiles : i \in UsableUpTo(a, u, k)}
  /\ c.duplicates = Cardinality(UsableUpTo(a, u, k) \ FirstUpTo(a, u, k))
  /\ c.invalid \in Nat
  /\ Len(c.rows) + c.duplicates + c.invalid = k

\* The property of the report, as Accounts of what it is about.
Accounts(a, u, n, c) ==
  /\ RowsUpTo(a, u, n, c.rows)
  /\ c.duplicates = Cardinality(UsableUpTo(a, u, n) \ FirstUpTo(a, u, n))
  /\ Len(c.rows) + c.duplicates + c.invalid + c.truncated = Len(u)

LEMMA CleaningIsAccounts ==
  /\ CleaningAccounts <=> (cleaned # None => Accounts(aim, raw, Min({MaxRows, Len(raw)}), cleaned))
  /\ CleaningAccounts' <=> (cleaned' # None => Accounts(aim', raw', Min({MaxRows, Len(raw')}), cleaned'))
BY DEF CleaningAccounts, Accounts, RowsUpTo, FirstUpTo, UsableUpTo, RowOf, ValueFor, Finite, Value

LEMMA IndicesFinite ==
  ASSUME NEW a, NEW u, NEW k \in Nat, NEW S \in SUBSET UsableUpTo(a, u, k)
  PROVE  IsFiniteSet(S) /\ Cardinality(S) \in Nat /\ S \in SUBSET (1..k)
<1>1. S \in SUBSET (1..k)
  BY DEF UsableUpTo
<1>2. IsFiniteSet(1..k)
  BY FS_Interval
<1>3. IsFiniteSet(S)
  BY <1>1, <1>2, FS_Subset
<1>4. QED
  BY <1>1, <1>3, FS_CardinalityType

LEMMA NothingRead ==
  ASSUME NEW a, NEW u
  PROVE  CountsUpTo(a, u, 0, Row0)
<1>1. UsableUpTo(a, u, 0) = {} /\ FirstUpTo(a, u, 0) = {}
  BY DEF UsableUpTo, FirstUpTo
<1>2. Cardinality({}) = 0 /\ {} \ {} = {}
  BY FS_EmptySet
<1>3. <<>> \in Seq({RowOf(a, u[i]) : i \in 1..0}) /\ Len(<<>>) = 0
  OBVIOUS
<1>4. RowsUpTo(a, u, 0, <<>>)
  BY <1>1, <1>2, <1>3 DEF RowsUpTo
<1>5. {u[i].smiles : i \in {}} = {}
  OBVIOUS
<1>6. /\ Row0 = [rows |-> Row0.rows, seen |-> Row0.seen, invalid |-> Row0.invalid,
                 duplicates |-> Row0.duplicates]
      /\ Row0.rows = <<>> /\ Row0.seen = {} /\ Row0.invalid = 0 /\ Row0.duplicates = 0
  BY DEF Row0
<1>7. 0 + 0 + 0 = 0 /\ 0 \in Nat
  OBVIOUS
<1>8. QED
  BY <1>1, <1>2, <1>3, <1>4, <1>5, <1>6, <1>7 DEF CountsUpTo

\* The checks of one record, on the counts so far.
LEMMA CleanOneFields ==
  ASSUME NEW c, NEW r, r.shaped \in BOOLEAN,
         c = [rows |-> c.rows, seen |-> c.seen, invalid |-> c.invalid, duplicates |-> c.duplicates]
  PROVE  LET d == CleanOne(c, r)
             usable == r.shaped /\ r.smiles # None /\ ValueFor(aim, r) # None
         IN /\ d = [rows |-> d.rows, seen |-> d.seen, invalid |-> d.invalid, duplicates |-> d.duplicates]
            /\ ~usable => /\ d.rows = c.rows /\ d.seen = c.seen
                          /\ d.invalid = c.invalid + 1 /\ d.duplicates = c.duplicates
            /\ usable /\ r.smiles \in c.seen =>
                          /\ d.rows = c.rows /\ d.seen = c.seen
                          /\ d.invalid = c.invalid /\ d.duplicates = c.duplicates + 1
            /\ usable /\ r.smiles \notin c.seen =>
                          /\ d.rows = Append(c.rows, RowOf(aim, r)) /\ d.seen = c.seen \cup {r.smiles}
                          /\ d.invalid = c.invalid /\ d.duplicates = c.duplicates
<1> DEFINE d == CleanOne(c, r)
           usable == r.shaped /\ r.smiles # None /\ ValueFor(aim, r) # None
<1>1. Finite(r) <=> ValueFor(aim, r) # None
  BY DEF Finite, Value, ValueFor
<1>2. RowOf(aim, r) = [smiles |-> r.smiles, value |-> Value(r)]
  BY DEF RowOf, Value, ValueFor
<1>3. CASE ~usable
  <2>1. d = [c EXCEPT !.invalid = @ + 1]
    BY <1>1, <1>3 DEF CleanOne
  <2>2. QED
    BY <1>3, <2>1
<1>4. CASE usable /\ r.smiles \in c.seen
  <2>1. d = [c EXCEPT !.duplicates = @ + 1]
    BY <1>1, <1>4 DEF CleanOne
  <2>2. QED
    BY <1>4, <2>1
<1>5. CASE usable /\ r.smiles \notin c.seen
  <2>1. d = [c EXCEPT !.rows = Append(@, RowOf(aim, r)), !.seen = @ \cup {r.smiles}]
    BY <1>1, <1>2, <1>5 DEF CleanOne
  <2>2. /\ d.rows = Append(c.rows, RowOf(aim, r)) /\ d.seen = c.seen \cup {r.smiles}
        /\ d.invalid = c.invalid /\ d.duplicates = c.duplicates
        /\ d = [rows |-> d.rows, seen |-> d.seen, invalid |-> d.invalid, duplicates |-> d.duplicates]
    <3> HIDE DEF d
    <3> DEFINE row == RowOf(aim, r)
    <3> HIDE DEF row
    <3>1. d = [c EXCEPT !.rows = Append(@, row), !.seen = @ \cup {r.smiles}]
      BY <2>1 DEF row
    <3>2. d.rows = Append(c.rows, row)
      BY <3>1
    <3>3. /\ d.seen = c.seen \cup {r.smiles} /\ d.invalid = c.invalid /\ d.duplicates = c.duplicates
          /\ d = [rows |-> d.rows, seen |-> d.seen, invalid |-> d.invalid, duplicates |-> d.duplicates]
      BY <3>1
    <3>4. QED
      BY <3>2, <3>3 DEF row
  <2>3. QED
    BY <1>5, <2>2
<1>6. QED
  BY <1>3, <1>4, <1>5

\* A record that is not usable changes no index; one that is comes last.
LEMMA OneMoreIndex ==
  ASSUME NEW a, NEW u, NEW k \in Nat
  PROVE  LET usable == u[k + 1].shaped /\ u[k + 1].smiles # None /\ ValueFor(a, u[k + 1]) # None
             U == UsableUpTo(a, u, k)
             F == FirstUpTo(a, u, k)
             new == \A i \in U : u[i].smiles # u[k + 1].smiles
         IN /\ UsableUpTo(a, u, k + 1) = IF usable THEN U \cup {k + 1} ELSE U
            /\ FirstUpTo(a, u, k + 1) = IF usable /\ new THEN F \cup {k + 1} ELSE F
            /\ U \in SUBSET (1..k) /\ F \in SUBSET U /\ k + 1 \notin U
<1> DEFINE usable == u[k + 1].shaped /\ u[k + 1].smiles # None /\ ValueFor(a, u[k + 1]) # None
           U == UsableUpTo(a, u, k)
           V == UsableUpTo(a, u, k + 1)
           F == FirstUpTo(a, u, k)
           new == \A i \in U : u[i].smiles # u[k + 1].smiles
<1>1. 1..(k + 1) = (1..k) \cup {k + 1} /\ k + 1 \notin 1..k /\ \A i \in 1..k : i < k + 1 /\ ~(k + 1 < i)
  OBVIOUS
<1>2. V = IF usable THEN U \cup {k + 1} ELSE U
  BY <1>1 DEF UsableUpTo
<1>3. U \in SUBSET (1..k) /\ F \in SUBSET U /\ k + 1 \notin U
  BY <1>1 DEF UsableUpTo, FirstUpTo
<1>4. F = {i \in U : \A j \in U : j < i => u[j].smiles # u[i].smiles}
  BY DEF FirstUpTo
<1>5. FirstUpTo(a, u, k + 1) = {i \in V : \A j \in V : j < i => u[j].smiles # u[i].smiles}
  BY DEF FirstUpTo
<1>6. ~(k + 1 < k + 1)
  OBVIOUS
<1> HIDE DEF U, V, F
<1>7. FirstUpTo(a, u, k + 1) = IF usable /\ new THEN F \cup {k + 1} ELSE F
  <2>1. CASE ~usable
    BY <1>2, <1>4, <1>5, <2>1
  <2>2. CASE usable
    <3> HIDE DEF usable
    <3>1. V = U \cup {k + 1}
      BY <1>2, <2>2
    <3>2. \A i \in U : (\A j \in V : j < i => u[j].smiles # u[i].smiles)
                        <=> (\A j \in U : j < i => u[j].smiles # u[i].smiles)
      BY <1>1, <1>3, <3>1
    <3>3. (\A j \in V : j < k + 1 => u[j].smiles # u[k + 1].smiles) <=> new
      BY <1>1, <1>3, <1>6, <3>1
    <3> DEFINE W == FirstUpTo(a, u, k + 1)
               P(i) == \A j \in V : j < i => u[j].smiles # u[i].smiles
    <3>4. \A i : i \in W <=> i \in V /\ P(i)
      BY <1>5
    <3>5. \A i \in U : P(i) <=> i \in F
      BY <1>4, <3>2
    <3>6. P(k + 1) <=> new
      BY <3>3
    <3> HIDE DEF W, P, new
    <3>7. \A i : i \in W <=> i \in F \/ (i = k + 1 /\ new)
      BY <1>3, <3>1, <3>4, <3>5, <3>6
    <3>8. W = IF new THEN F \cup {k + 1} ELSE F
      BY <3>7
    <3>9. QED
      BY <2>2, <3>8 DEF W
  <2>3. QED
    BY <2>1, <2>2
<1>8. QED
  BY <1>2, <1>3, <1>7 DEF U, V, F

\* A place in the rows of the first usable records.
LEMMA Places ==
  ASSUME NEW a, NEW u, NEW k \in Nat, NEW i \in FirstUpTo(a, u, k)
  PROVE  Cardinality({j \in FirstUpTo(a, u, k) : j <= i}) \in 1..Cardinality(FirstUpTo(a, u, k))
<1> DEFINE F == FirstUpTo(a, u, k)
           S == {j \in F : j <= i}
<1>1. F \in SUBSET UsableUpTo(a, u, k)
  BY DEF FirstUpTo
<1>2. IsFiniteSet(F) /\ Cardinality(F) \in Nat /\ F \in SUBSET (1..k)
  BY <1>1, IndicesFinite
<1>3. S \in SUBSET F /\ i \in S
  BY <1>2
<1>4. IsFiniteSet(S) /\ Cardinality(S) <= Cardinality(F)
  BY <1>2, <1>3, FS_Subset
<1>5. Cardinality(S) \in Nat /\ Cardinality(S) # 0
  BY <1>3, <1>4, FS_CardinalityType, FS_EmptySet
<1>6. QED
  BY <1>2, <1>4, <1>5

\* One record more.
LEMMA CleanOneCounts ==
  ASSUME NEW u, NEW k \in Nat, NEW c, u[k + 1].shaped \in BOOLEAN, CountsUpTo(aim, u, k, c)
  PROVE  CountsUpTo(aim, u, k + 1, CleanOne(c, u[k + 1]))
<1> DEFINE d == CleanOne(c, u[k + 1])
           usable == u[k + 1].shaped /\ u[k + 1].smiles # None /\ ValueFor(aim, u[k + 1]) # None
           U == UsableUpTo(aim, u, k)
           F == FirstUpTo(aim, u, k)
           V == UsableUpTo(aim, u, k + 1)
           G == FirstUpTo(aim, u, k + 1)
           new == \A i \in U : u[i].smiles # u[k + 1].smiles
           Old == {RowOf(aim, u[i]) : i \in 1..k}
           All == {RowOf(aim, u[i]) : i \in 1..(k + 1)}
<1>1. /\ c = [rows |-> c.rows, seen |-> c.seen, invalid |-> c.invalid, duplicates |-> c.duplicates]
      /\ c.rows \in Seq(Old) /\ RowsUpTo(aim, u, k, c.rows)
      /\ c.seen = {u[i].smiles : i \in U}
      /\ c.duplicates = Cardinality(U \ F)
      /\ c.invalid \in Nat
      /\ Len(c.rows) + c.duplicates + c.invalid = k
  BY DEF CountsUpTo
<1>2. /\ d = [rows |-> d.rows, seen |-> d.seen, invalid |-> d.invalid, duplicates |-> d.duplicates]
      /\ ~usable => /\ d.rows = c.rows /\ d.seen = c.seen
                    /\ d.invalid = c.invalid + 1 /\ d.duplicates = c.duplicates
      /\ usable /\ u[k + 1].smiles \in c.seen =>
                    /\ d.rows = c.rows /\ d.seen = c.seen
                    /\ d.invalid = c.invalid /\ d.duplicates = c.duplicates + 1
      /\ usable /\ u[k + 1].smiles \notin c.seen =>
                    /\ d.rows = Append(c.rows, RowOf(aim, u[k + 1]))
                    /\ d.seen = c.seen \cup {u[k + 1].smiles}
                    /\ d.invalid = c.invalid /\ d.duplicates = c.duplicates
  BY <1>1, CleanOneFields
<1>3. /\ V = IF usable THEN U \cup {k + 1} ELSE U
      /\ G = IF usable /\ new THEN F \cup {k + 1} ELSE F
      /\ U \in SUBSET (1..k) /\ F \in SUBSET U /\ k + 1 \notin U
  BY OneMoreIndex
<1>4. u[k + 1].smiles \in c.seen <=> ~new
  BY <1>1
<1>5. /\ IsFiniteSet(U) /\ IsFiniteSet(F) /\ IsFiniteSet(U \ F)
      /\ Cardinality(F) \in Nat /\ Cardinality(U \ F) \in Nat
  BY <1>3, IndicesFinite
<1>6. /\ Len(c.rows) = Cardinality(F)
      /\ \A i \in F : c.rows[Cardinality({j \in F : j <= i})] = RowOf(aim, u[i])
  BY <1>1 DEF RowsUpTo
<1>7. \A i \in F : Cardinality({j \in F : j <= i}) \in 1..Cardinality(F)
  BY Places
<1>8. Old \subseteq All /\ RowOf(aim, u[k + 1]) \in All
  OBVIOUS
<1>9. c.rows \in Seq(All)
  BY <1>1, <1>8
<1> SUFFICES /\ d.rows \in Seq(All)
             /\ Len(d.rows) = Cardinality(G)
             /\ \A i \in G : d.rows[Cardinality({j \in G : j <= i})] = RowOf(aim, u[i])
             /\ d.seen = {u[i].smiles : i \in V}
             /\ d.duplicates = Cardinality(V \ G)
             /\ d.invalid \in Nat
             /\ Len(d.rows) + d.duplicates + d.invalid = k + 1
  BY <1>2 DEF CountsUpTo, RowsUpTo
<1> HIDE DEF d, usable, U, F, V, G, new, Old, All
<1>10. CASE ~usable
  <2>1. V = U /\ G = F /\ d.rows = c.rows /\ d.seen = c.seen
        /\ d.invalid = c.invalid + 1 /\ d.duplicates = c.duplicates
    BY <1>2, <1>3, <1>10
  <2>2. d.invalid \in Nat /\ Len(d.rows) + d.duplicates + d.invalid = k + 1
    BY <1>1, <1>5, <1>6, <2>1
  <2>3. QED
    BY <1>1, <1>6, <1>9, <2>1, <2>2
<1>11. CASE usable /\ ~new
  <2>1. V = U \cup {k + 1} /\ G = F /\ d.rows = c.rows /\ d.seen = c.seen
        /\ d.invalid = c.invalid /\ d.duplicates = c.duplicates + 1
    BY <1>2, <1>3, <1>4, <1>11
  <2>2. d.invalid \in Nat /\ Len(d.rows) + d.duplicates + d.invalid = k + 1
    BY <1>1, <1>5, <1>6, <2>1
  <2>3. V \ G = (U \ F) \cup {k + 1} /\ k + 1 \notin U \ F
    BY <1>3, <2>1
  <2>4. Cardinality(V \ G) = Cardinality(U \ F) + 1
    BY <1>5, <2>3, FS_AddElement
  <2>5. d.seen = {u[i].smiles : i \in V}
    BY <1>1, <1>4, <1>11, <2>1
  <2>6. QED
    BY <1>1, <1>6, <1>9, <2>1, <2>2, <2>4, <2>5
<1>12. CASE usable /\ new
  <2> DEFINE row == RowOf(aim, u[k + 1])
             m == Cardinality(F)
  <2>1. /\ V = U \cup {k + 1} /\ G = F \cup {k + 1} /\ d.rows = Append(c.rows, row)
        /\ d.seen = c.seen \cup {u[k + 1].smiles}
        /\ d.invalid = c.invalid /\ d.duplicates = c.duplicates
    BY <1>2, <1>3, <1>4, <1>12
  <2>2. V \ G = U \ F
    BY <1>3, <2>1
  <2>3. Cardinality(G) = m + 1
    <3>1. k + 1 \notin F
      BY <1>3
    <3>2. QED
      BY <1>5, <2>1, <3>1, FS_AddElement
  <2>4. d.seen = {u[i].smiles : i \in V}
    BY <1>1, <2>1
  <2> HIDE DEF row
  <2>5. row \in All
    BY <1>8 DEF row
  <2>6. /\ d.rows \in Seq(All) /\ Len(d.rows) = Len(c.rows) + 1
        /\ d.rows[Len(c.rows) + 1] = row
        /\ \A i \in 1..Len(c.rows) : d.rows[i] = c.rows[i]
    BY <1>9, <2>1, <2>5
  <2>7. d.invalid \in Nat /\ Len(d.rows) + d.duplicates + d.invalid = k + 1
    <3>1. Len(c.rows) \in Nat /\ c.duplicates \in Nat
      BY <1>1, <1>5, <1>6
    <3>2. QED
      BY <1>1, <2>1, <2>6, <3>1
  <2>8. ASSUME NEW i \in G PROVE d.rows[Cardinality({j \in G : j <= i})] = RowOf(aim, u[i])
    <3>1. CASE i = k + 1
      <4>0. \A j \in G : j <= i
        <5>1. \A j \in 1..k : j <= k + 1
          OBVIOUS
        <5>2. k + 1 <= k + 1
          OBVIOUS
        <5>3. \A j \in G : j \in 1..k \/ j = k + 1
          BY <1>3, <2>1
        <5>4. QED
          BY <3>1, <5>1, <5>2, <5>3
      <4>1. {j \in G : j <= i} = G
        BY <4>0
      <4>2. QED
        BY <1>6, <2>3, <2>6, <3>1, <4>1 DEF row
    <3>2. CASE i # k + 1
      <4>1. i \in F
        BY <2>1, <3>2
      <4>2. {j \in G : j <= i} = {j \in F : j <= i}
        BY <1>3, <2>1, <4>1
      <4>3. QED
        BY <1>6, <1>7, <2>6, <4>1, <4>2
    <3>3. QED
      BY <3>1, <3>2
  <2>9. QED
    BY <1>1, <1>6, <2>1, <2>2, <2>3, <2>4, <2>6, <2>7, <2>8
<1>13. QED
  BY <1>10, <1>11, <1>12

LEMMA CleaningCounts ==
  ASSUME NEW u \in Uploads, NEW n \in 0..Len(u)
  PROVE  CountsUpTo(aim, u, n, FoldLeft(CleanOne, Row0, SubSeq(u, 1, n)))
<1> DEFINE q == SubSeq(u, 1, n)
<1>1. u \in Seq(Range(u)) /\ \A x \in Range(u) : x.shaped \in BOOLEAN
  BY ScienceAssumption
<1>2. n \in Nat /\ DOMAIN q = 1..n /\ \A i \in 1..n : q[i] = u[i]
  <2>1. Len(u) \in Nat /\ n \in Nat /\ n <= Len(u)
    BY <1>1
  <2>2. QED
    BY <1>1, <2>1
<1>3. \A i \in 1..n : u[i].shaped \in BOOLEAN
  <2>1. \A i \in 1..n : i \in DOMAIN u
    BY <1>1
  <2>2. QED
    BY <1>1, <2>1 DEF Range
<1> HIDE DEF q
<1>4. PICK r : /\ r[0] = Row0
               /\ \A k \in 0..(n - 1) : r[k + 1] = CleanOne(r[k], q[k + 1])
               /\ r[n] = FoldLeft(CleanOne, Row0, q)
  BY <1>2, CleaningFold
<1> DEFINE H == {k \in Nat : CountsUpTo(aim, u, k, r[k])}
<1>5. 0 \in H
  BY <1>4, NothingRead
<1>6. ASSUME NEW k \in 0..(n - 1), k \in H PROVE k + 1 \in H
  <2>1. k \in Nat /\ k + 1 \in Nat /\ k + 1 \in 1..n
    BY <1>2
  <2>2. CountsUpTo(aim, u, k + 1, CleanOne(r[k], u[k + 1]))
    BY <1>3, <1>6, <2>1, CleanOneCounts
  <2>3. r[k + 1] = CleanOne(r[k], u[k + 1])
    BY <1>2, <1>4, <2>1
  <2>4. QED
    BY <2>1, <2>2, <2>3
<1> HIDE DEF H
<1>7. 0..n \subseteq H
  BY <1>2, <1>5, <1>6, UpTo
<1>8. n \in H
  BY <1>2, <1>7
<1>9. QED
  BY <1>4, <1>8 DEF H, q

\* The host waits only in a remote stage.
WaitsInStage == local.step # "none" => phase \in RemoteStages

LEMMA InitWaits == ScienceInit => WaitsInStage
BY DEF ScienceInit, WaitsInStage, NoWait

LEMMA WaitsStep ==
  ASSUME Clocks, WaitsInStage, ScienceNext \/ UNCHANGED both
  PROVE  WaitsInStage'
<1>1. CASE UNCHANGED science
  BY <1>1 DEF science, WaitsInStage
<1>2. CASE Host
  <2>1. CASE TransferFails \/ ConnectionLost \/ Refused \/ CommandFails \/ TimedOut \/ StageEnds
    <3>1. local' = NoWait
      BY <2>1 DEF TransferFails, ConnectionLost, Refused, CommandFails, TimedOut, Fail, StageEnds
    <3>2. QED
      BY <3>1 DEF NoWait, WaitsInStage
  <2>2. CASE BeginStage \/ Transfer \/ CommandReturns
    BY <2>2 DEF BeginStage, Transfer, CommandReturns, WaitsInStage
  <2>3. CASE PrepareUpload \/ PreflightUpload \/ PreflightReviewed \/ Evaluate
    <3>1. phase \notin RemoteStages /\ local' = local
      BY <2>3 DEF PrepareUpload, PreflightUpload, PreflightReviewed, Evaluate, RemoteStages
    <3>2. QED
      BY <3>1 DEF WaitsInStage
  <2>4. QED
    BY <1>2, <2>1, <2>2, <2>3 DEF Host
<1>3. CASE Machine
  BY <1>3 DEF Machine, CommandStarts, Trained, Attempt, Generated, Predicted, CommandBreaks,
              Terminated, Rest, WaitsInStage
<1>4. CASE Tick
  <2>1. phase' = phase /\ (local' = local \/ local' = [local EXCEPT !.elapsed = @ + 1])
    BY <1>4 DEF Tick
  <2>2. local'.step = local.step
    BY <2>1 DEF Clocks
  <2>3. QED
    BY <2>1, <2>2 DEF WaitsInStage
<1>5. QED
  BY <1>1, <1>2, <1>3, <1>4 DEF ScienceNext, both

\* What is prepared is an upload, and a report accounts for it.
CleaningInv ==
  /\ Clocks /\ WaitsInStage
  /\ phase = "prepare" => raw \in Uploads
  /\ CleaningAccounts

LEMMA PrepareAccounts ==
  ASSUME CleaningInv, PrepareUpload
  PROVE  CleaningAccounts'
<1> DEFINE n == Min({MaxRows, Len(raw)})
           result == FoldLeft(CleanOne, Row0, SubSeq(raw, 1, n))
<1>1. raw \in Uploads /\ raw' = raw /\ aim' = aim
  BY DEF CleaningInv, PrepareUpload
<1>2. raw \in Seq(Range(raw)) /\ MaxRows \in Nat /\ Len(raw) \in Nat
  BY <1>1, ScienceAssumption
<1>3. n \in 0..Len(raw)
  <2>1. CASE MaxRows <= Len(raw)
    <3>1. n = MaxRows
      BY <1>2, <2>1, SmallerOfTwo
    <3>2. QED
      BY <1>2, <2>1, <3>1
  <2>2. CASE Len(raw) <= MaxRows
    <3>1. Min({Len(raw), MaxRows}) = Len(raw) /\ {Len(raw), MaxRows} = {MaxRows, Len(raw)}
      BY <1>2, <2>2, SmallerOfTwo
    <3>2. n = Len(raw)
      BY <3>1, Zenon DEF n
    <3>3. QED
      BY <1>2, <3>2
  <2>3. QED
    BY <1>2, <2>1, <2>2
<1>4. Considered = SubSeq(raw, 1, n)
  BY DEF Considered
<1>5. Len(SubSeq(raw, 1, n)) = n
  BY <1>2, <1>3
<1>6. CountsUpTo(aim, raw, n, result)
  BY <1>1, <1>3, CleaningCounts
<1> HIDE DEF n, result
<1>7. \/ cleaned' = cleaned
      \/ cleaned' = [rows |-> result.rows, invalid |-> result.invalid,
                     duplicates |-> result.duplicates, truncated |-> Len(raw) - n]
  BY <1>4, <1>5 DEF PrepareUpload, result
<1>8. CASE cleaned' = cleaned
  BY <1>1, <1>8, CleaningIsAccounts DEF CleaningInv
<1>9. CASE cleaned' = [rows |-> result.rows, invalid |-> result.invalid,
                       duplicates |-> result.duplicates, truncated |-> Len(raw) - n]
  <2>1. /\ cleaned'.rows = result.rows /\ cleaned'.invalid = result.invalid
        /\ cleaned'.duplicates = result.duplicates /\ cleaned'.truncated = Len(raw) - n
    BY <1>9
  <2>2. /\ result.rows \in Seq({RowOf(aim, raw[i]) : i \in 1..n})
        /\ RowsUpTo(aim, raw, n, result.rows)
        /\ result.duplicates = Cardinality(UsableUpTo(aim, raw, n) \ FirstUpTo(aim, raw, n))
        /\ result.invalid \in Nat
        /\ Len(result.rows) + result.duplicates + result.invalid = n
    BY <1>6 DEF CountsUpTo
  <2>3. n \in Nat /\ result.duplicates \in Nat
    BY <1>3, <2>2, IndicesFinite
  <2>4. Len(result.rows) \in Nat
    BY <2>2
  <2>5. Len(result.rows) + result.duplicates + result.invalid + (Len(raw) - n) = Len(raw)
    BY <1>2, <2>2, <2>3, <2>4
  <2>6. Accounts(aim, raw, n, cleaned')
    BY <2>1, <2>2, <2>5 DEF Accounts
  <2>7. QED
    BY <1>1, <2>6, CleaningIsAccounts DEF n
<1>10. QED
  BY <1>7, <1>8, <1>9

LEMMA InitCleaningInv == ScienceInit => CleaningInv
<1> SUFFICES ASSUME ScienceInit PROVE CleaningInv
  OBVIOUS
<1>1. cleaned = None /\ (phase = "prepare" => raw \in Uploads)
  BY DEF ScienceInit
<1>2. QED
  BY <1>1, InitClocks, InitWaits DEF CleaningInv, CleaningAccounts

\* No other step cleans, or goes back.
LEMMA OnlyPrepareCleans ==
  ASSUME WaitsInStage, ScienceNext \/ UNCHANGED both
  PROVE  \/ PrepareUpload
         \/ phase' # "prepare" /\ cleaned' = None
         \/ UNCHANGED <<aim, raw, cleaned>> /\ (phase' = phase \/ phase' # "prepare")
<1>1. CASE UNCHANGED science
  BY <1>1 DEF science
<1>2. CASE Host
  <2>1. CASE StageEnds
    <3>1. CASE phase = "train"
      BY <2>1, <3>1 DEF StageEnds
    <3>2. CASE phase = "generate"
      BY <2>1, <3>2 DEF StageEnds
    <3>3. CASE phase = "predict"
      BY <2>1, <3>3 DEF StageEnds
    <3>4. QED
      BY <2>1, <3>1, <3>2, <3>3 DEF StageEnds, WaitsInStage, RemoteStages
  <2>2. CASE PreflightUpload \/ PreflightReviewed \/ Evaluate \/ BeginStage \/ Transfer \/ CommandReturns
    BY <2>2 DEF PreflightUpload, PreflightReviewed, Evaluate, BeginStage, Transfer, CommandReturns
  <2>3. CASE TransferFails \/ ConnectionLost \/ Refused \/ CommandFails \/ TimedOut
    BY <2>3 DEF TransferFails, ConnectionLost, Refused, CommandFails, TimedOut, Fail
  <2>4. QED
    BY <1>2, <2>1, <2>2, <2>3 DEF Host
<1>3. CASE Machine
  BY <1>3 DEF Machine, CommandStarts, Trained, Attempt, Generated, Predicted, CommandBreaks,
              Terminated, Rest
<1>4. CASE Tick
  BY <1>4 DEF Tick
<1>5. QED
  BY <1>1, <1>2, <1>3, <1>4 DEF ScienceNext, both

LEMMA CleaningInvStep == CleaningInv /\ [ScienceNext]_both => CleaningInv'
<1> SUFFICES ASSUME CleaningInv, ScienceNext \/ UNCHANGED both PROVE CleaningInv'
  OBVIOUS
<1>0. Clocks' /\ WaitsInStage'
  BY ClocksStep, WaitsStep DEF CleaningInv
<1>1. CASE PrepareUpload
  <2>1. phase' # "prepare"
    BY <1>1 DEF PrepareUpload
  <2>2. QED
    BY <1>0, <1>1, <2>1, PrepareAccounts DEF CleaningInv
<1>2. CASE phase' # "prepare" /\ cleaned' = None
  BY <1>0, <1>2 DEF CleaningInv, CleaningAccounts
<1>3. CASE UNCHANGED <<aim, raw, cleaned>> /\ (phase' = phase \/ phase' # "prepare")
  BY <1>0, <1>3, CleaningIsAccounts DEF CleaningInv
<1>4. QED
  BY <1>1, <1>2, <1>3, OnlyPrepareCleans DEF CleaningInv

\* For every upload, the cleaned rows are the first usable record of each SMILES in
\* source order, and the report counts every other record once (prepare_raw_dataset).
THEOREM EveryRecordCounted == ScienceSpec => []CleaningAccounts
<1>1. ScienceSpec => ScienceInit /\ [][ScienceNext]_both
  BY DEF ScienceSpec
<1>2. CleaningInv => CleaningAccounts
  BY DEF CleaningInv
<1>3. QED
  BY <1>1, <1>2, InitCleaningInv, CleaningInvStep, PTL


(***************************************************************************)
(* The ranked list                                                         *)
(***************************************************************************)

\* What the generator's molecules are while they are collected: no two the same.
Picked(f) ==
  /\ f \in Seq(Range(f)) /\ Len(f) <= CandidateCount
  /\ \A i, j \in 1..Len(f) : f[i] = f[j] => i = j

\* A finished list of candidates.
Listed(c) ==
  /\ c \in Seq(Range(c)) /\ Len(c) = CandidateCount
  /\ \A i \in 1..Len(c) : c[i].id \in Nat
  /\ \A i, j \in 1..Len(c) : c[i].id = c[j].id \/ c[i].molecule = c[j].molecule => i = j

\* Predictions for all of them.
PredictedAll(p) ==
  /\ p \in Seq(Range(p)) /\ Len(p) = CandidateCount
  /\ \A i \in 1..Len(p) : p[i].id \in Nat /\ p[i].value \in Int
  /\ \A i, j \in 1..Len(p) : p[i].id = p[j].id => i = j

LEMMA KeepPicks ==
  ASSUME NEW f, NEW m, Picked(f)
  PROVE  Picked(Keep(f, m))
<1> DEFINE g == Keep(f, m)
           n == Len(f)
           S == Range(f) \cup {m}
<1>1. f \in Seq(Range(f)) /\ n <= CandidateCount /\ \A i, j \in 1..n : f[i] = f[j] => i = j
  BY DEF Picked
<1>2. CASE g = f
  BY <1>2
<1>3. CASE g # f
  <2>1. g = Append(f, m) /\ m \notin Range(f) /\ n # CandidateCount
    BY <1>3 DEF Keep
  <2>2. n \in Nat /\ f \in Seq(S) /\ m \in S /\ CandidateCount \in Nat /\ DOMAIN f = 1..n
    <3>1. Range(f) \subseteq S /\ m \in S /\ CandidateCount \in Nat
      BY ScienceAssumption
    <3> HIDE DEF S
    <3>2. QED
      BY <1>1, <3>1
  <2>3. \A i \in 1..n : f[i] # m
    BY <2>1, <2>2 DEF Range
  <2> HIDE DEF g, S
  <2>4. g \in Seq(S) /\ Len(g) = n + 1 /\ g[n + 1] = m /\ \A i \in 1..n : g[i] = f[i]
    <3>1. f \in Seq(S) /\ m \in S /\ g = Append(f, m)
      BY <2>1, <2>2
    <3>2. QED
      BY <3>1
  <2>5. Len(g) <= CandidateCount
    <3>1. n \in Nat /\ CandidateCount \in Nat /\ n <= CandidateCount /\ n # CandidateCount
          /\ Len(g) = n + 1
      BY <1>1, <2>1, <2>2, <2>4, Zenon
    <3> HIDE DEF n
    <3>2. QED
      BY <3>1
  <2>6. g \in Seq(Range(g))
    <3>1. DOMAIN g = 1..Len(g) /\ g = [i \in 1..Len(g) |-> g[i]]
      BY <2>4
    <3>2. \A i \in 1..Len(g) : g[i] \in Range(g)
      BY <3>1 DEF Range
    <3>3. QED
      BY <2>2, <2>4, <3>1, <3>2
  <2>7. \A i \in 1..Len(g) : i \in 1..n \/ i = n + 1
    BY <2>2, <2>4
  <2>8. \A i, j \in 1..Len(g) : g[i] = g[j] => i = j
    BY <1>1, <2>3, <2>4, <2>7
  <2>9. QED
    BY <2>5, <2>6, <2>8 DEF Picked, g
<1>4. QED
  BY <1>2, <1>3

LEMMA AttemptPicks ==
  ASSUME NEW f, Picked(f), NEW b \in Samples
  PROVE  Picked(FoldLeft(Keep, f, b))
<1> DEFINE n == Len(b)
<1>1. b \in Seq(Range(b))
  BY ScienceAssumption
<1>2. n \in Nat /\ DOMAIN b = 1..n
  BY <1>1
<1>3. PICK r : /\ r[0] = f
               /\ \A k \in 0..(n - 1) : r[k + 1] = Keep(r[k], b[k + 1])
               /\ r[n] = FoldLeft(Keep, f, b)
  BY <1>2, PickingFold
<1> DEFINE H == {k \in Nat : Picked(r[k])}
<1>4. 0 \in H
  BY <1>3
<1>5. ASSUME NEW k \in 0..(n - 1), k \in H PROVE k + 1 \in H
  <2>1. k + 1 \in Nat
    BY <1>2
  <2>2. Picked(Keep(r[k], b[k + 1]))
    BY <1>5, KeepPicks
  <2>3. QED
    BY <1>3, <2>1, <2>2
<1> HIDE DEF H, n
<1>6. 0..n \subseteq H
  BY <1>2, <1>4, <1>5, UpTo
<1>7. n \in H
  BY <1>2, <1>6
<1>8. QED
  BY <1>3, <1>7 DEF H

\* Naming what was picked.
LEMMA NamingLists ==
  ASSUME NEW f, Picked(f), Len(f) >= CandidateCount, NEW ids \in SetToSeqs(1..Len(f))
  PROVE  Listed([i \in DOMAIN f |-> [id |-> ids[i], molecule |-> f[i]]])
<1> DEFINE n == Len(f)
           c == [i \in DOMAIN f |-> [id |-> ids[i], molecule |-> f[i]]]
<1>1. f \in Seq(Range(f)) /\ n <= CandidateCount /\ \A i, j \in 1..n : f[i] = f[j] => i = j
  BY DEF Picked
<1>2. n \in Nat /\ DOMAIN f = 1..n /\ CandidateCount \in Nat /\ n = CandidateCount
  BY <1>1, ScienceAssumption
<1>3. Cardinality(1..n) = n
  BY <1>2, FS_Interval
<1>4. ids \in [1..n -> 1..n] /\ \A i, j \in 1..n : i # j => ids[i] # ids[j]
  BY <1>3 DEF SetToSeqs
<1>5. c = [i \in 1..n |-> [id |-> ids[i], molecule |-> f[i]]]
  BY <1>2
<1>6. \A i \in 1..n : c[i].id = ids[i] /\ c[i].molecule = f[i] /\ c[i].id \in Nat
  BY <1>4, <1>5
<1>7. DOMAIN c = 1..n
  BY <1>5
<1>8. c = [i \in 1..n |-> c[i]] /\ \A i \in 1..n : c[i] \in Range(c)
  BY <1>5, <1>7 DEF Range
<1> HIDE DEF c
<1>9. c \in Seq(Range(c)) /\ Len(c) = n
  BY <1>2, <1>7, <1>8
<1>10. \A i, j \in 1..n : c[i].id = c[j].id \/ c[i].molecule = c[j].molecule => i = j
  BY <1>1, <1>4, <1>6
<1>11. QED
  BY <1>2, <1>6, <1>9, <1>10 DEF Listed, c

\* Scoring what is listed.
LEMMA ScoringPredicts ==
  ASSUME NEW c, Listed(c), NEW scores \in [1..Len(c) -> Scores]
  PROVE  PredictedAll([i \in 1..Len(c) |-> [id |-> c[i].id, molecule |-> c[i].molecule,
                                            value |-> scores[i]]])
<1> DEFINE n == Len(c)
           p == [i \in 1..n |-> [id |-> c[i].id, molecule |-> c[i].molecule, value |-> scores[i]]]
<1>1. /\ c \in Seq(Range(c)) /\ n = CandidateCount
      /\ \A i \in 1..n : c[i].id \in Nat
      /\ \A i, j \in 1..n : c[i].id = c[j].id => i = j
  BY DEF Listed
<1>2. n \in Nat
  BY <1>1
<1>3. \A i \in 1..n : p[i].id = c[i].id /\ p[i].value \in Int
  BY ScienceAssumption
<1>4. DOMAIN p = 1..n
  OBVIOUS
<1>5. p = [i \in 1..n |-> p[i]] /\ \A i \in 1..n : p[i] \in Range(p)
  BY <1>4 DEF Range
<1> HIDE DEF p
<1>6. p \in Seq(Range(p)) /\ Len(p) = n
  BY <1>2, <1>4, <1>5
<1>7. QED
  BY <1>1, <1>3, <1>6 DEF PredictedAll, p

\* The order of the property, with the aim as a parameter.
Cost(a, x) == IF a.direction = "MAX" THEN -x.value ELSE x.value

Better(a, x, y) == Cost(a, x) < Cost(a, y) \/ (Cost(a, x) = Cost(a, y) /\ x.id < y.id)

Ranked(a, p, t) ==
  /\ Len(t) = TopN
  /\ \A i, j \in DOMAIN t : i < j => Better(a, t[i], t[j])
  /\ \A x \in Range(p) \ Range(t) : \A i \in DOMAIN t : Better(a, t[i], x)

LEMMA RankingIsRanked ==
  /\ RankingExact <=> (phase = "done" => Ranked(aim, predictions, top))
  /\ RankingExact' <=> (phase' = "done" => Ranked(aim', predictions', top'))
BY DEF RankingExact, Ranked, Better, Cost

\* The code's order is that order.
LEMMA BeforeIsBetter ==
  ASSUME NEW x, NEW y, x.value \in Int, y.value \in Int, Before(x, y)
  PROVE  Better(aim, x, y)
BY DEF Before, Better, Cost

LEMMA CountedUpTo == \A k \in Nat : IsFiniteSet(1..k) /\ Cardinality(1..k) = k
<1> SUFFICES ASSUME NEW k \in Nat PROVE IsFiniteSet(1..k) /\ Cardinality(1..k) = k
  OBVIOUS
<1>1. 1 \in Int /\ k \in Int
  OBVIOUS
<1>2. IsFiniteSet(1..k) /\ Cardinality(1..k) = IF 1 > k THEN 0 ELSE k - 1 + 1
  BY <1>1, FS_Interval
<1>3. QED
  BY <1>2

\* A list without repetition of all that was predicted, in order, is cut to the best.
LEMMA SortedIsRanked ==
  ASSUME NEW p, PredictedAll(p), NEW s \in SetToSeqs(Range(p)),
         \A i, j \in DOMAIN s : i < j => Before(s[i], s[j])
  PROVE  Ranked(aim, p, SubSeq(s, 1, Min({TopN, Len(p)})))
<1> DEFINE n == Len(p)
           R == Range(p)
           t == SubSeq(s, 1, TopN)
<1>1. /\ p \in Seq(R) /\ n = CandidateCount
      /\ \A i \in 1..n : p[i].id \in Nat /\ p[i].value \in Int
      /\ \A i, j \in 1..n : p[i].id = p[j].id => i = j
  BY DEF PredictedAll
<1>2. n \in Nat /\ TopN \in Nat /\ TopN <= n /\ DOMAIN p = 1..n
  BY <1>1, ScienceAssumption
<1>3. Min({TopN, Len(p)}) = TopN
  BY <1>2, SmallerOfTwo
<1>4. IsFiniteSet(R) /\ Cardinality(R) = n
  <2>1. IsFiniteSet(1..n) /\ Cardinality(1..n) = n
    BY <1>2, CountedUpTo, Zenon
  <2>2. p \in [1..n -> R] /\ \A y \in R : \E i \in 1..n : p[i] = y
    BY <1>1, <1>2 DEF Range
  <2>3. p \in Surjection(1..n, R) /\ p \in Injection(1..n, R)
    BY <1>1, <1>2, <2>2 DEF Surjection, Injection, IsInjective
  <2>4. QED
    BY <2>1, <2>3, FS_Surjection
<1>5. s \in [1..n -> R] /\ \A i, j \in 1..n : i # j => s[i] # s[j]
  BY <1>4 DEF SetToSeqs
<1>6. \A y \in R : \E i \in 1..n : s[i] = y
  <2>1. IsFiniteSet(1..n) /\ Cardinality(1..n) = n
    BY <1>2, CountedUpTo, Zenon
  <2>2. s \in Injection(1..n, R)
    BY <1>5 DEF Injection, IsInjective
  <2>3. s \in Surjection(1..n, R)
    BY <1>4, <2>1, <2>2, FS_Injection
  <2>4. QED
    BY <2>3 DEF Surjection
<1>7. \A y \in R : y.value \in Int
  BY <1>1, <1>2 DEF Range
<1>8. \A i, j \in 1..n : i < j => Better(aim, s[i], s[j])
  <2>1. DOMAIN s = 1..n /\ \A i \in 1..n : s[i] \in R
    BY <1>5
  <2>2. QED
    BY <1>7, <2>1, BeforeIsBetter
<1>9. s \in Seq(R) /\ Len(s) = n
  BY <1>2, <1>5
<1>10. Len(t) = TopN /\ DOMAIN t = 1..TopN /\ \A i \in 1..TopN : t[i] = s[i] /\ i \in 1..n
  <2> HIDE DEF R
  <2>1. QED
    BY <1>2, <1>9
<1> HIDE DEF t, R, n
<1>11. \A i, j \in DOMAIN t : i < j => Better(aim, t[i], t[j])
  BY <1>8, <1>10
<1>12. ASSUME NEW y \in R \ Range(t), NEW i \in DOMAIN t PROVE Better(aim, t[i], y)
  <2>1. PICK j \in 1..n : s[j] = y
    BY <1>6
  <2>2. j \notin 1..TopN
    <3>1. ASSUME j \in 1..TopN PROVE y \in Range(t)
      BY <1>10, <2>1, <3>1 DEF Range
    <3>2. QED
      BY <3>1
  <2>3. i \in 1..n /\ i < j /\ t[i] = s[i]
    BY <1>2, <1>10, <2>2
  <2>4. QED
    BY <1>8, <2>1, <2>3
<1>13. Ranked(aim, p, t)
  BY <1>10, <1>11, <1>12 DEF Ranked, R
<1>14. QED
  BY <1>3, <1>13 DEF t

LEMMA NothingPicked == Picked(<<>>)
BY ScienceAssumption DEF Picked

\* What has been fetched is a finished command's.
Fetched == local.step \in {"fetch output", "fetch report"} => remote.state = "done"

\* What is known of the work on the other machine.
Remotely ==
  /\ phase = "generate" /\ remote.state = "running" => Picked(remote.found)
  /\ phase = "generate" /\ remote.state = "done" => Listed(remote.found)
  /\ phase = "predict" /\ remote.state = "done" => remote.scores \in [1..Len(candidates) -> Scores]

\* What is known of the work that was published.
Locally ==
  /\ phase \in {"predict", "evaluate", "done"} \/ candidates # <<>> => Listed(candidates)
  /\ phase \in {"evaluate", "done"} => PredictedAll(predictions)
  /\ phase = "done" => Ranked(aim, predictions, top)

ListInv == Clocks /\ WaitsInStage /\ Fetched /\ Remotely /\ Locally

LEMMA InitListInv == ScienceInit => ListInv
<1> SUFFICES ASSUME ScienceInit PROVE ListInv
  OBVIOUS
<1>1. phase \in {"prepare", "preflight"} /\ candidates = <<>> /\ local.step = "none"
  BY DEF ScienceInit, NoWait
<1>2. QED
  BY <1>1, InitClocks, InitWaits DEF ListInv, Fetched, Remotely, Locally

LEMMA LocallyKept ==
  ASSUME Locally, UNCHANGED <<aim, candidates, predictions, top>>,
         phase' = phase \/ phase' \notin {"predict", "evaluate", "done"}
  PROVE  Locally'
BY DEF Locally

LEMMA HostKeepsList ==
  ASSUME ListInv, Host
  PROVE  Fetched' /\ Remotely' /\ Locally'
<1>0. Clocks /\ WaitsInStage /\ Fetched /\ Remotely /\ Locally
  BY DEF ListInv
<1>1. CASE PrepareUpload \/ PreflightUpload \/ PreflightReviewed
  <2>1. /\ UNCHANGED <<local, remote, aim, candidates, predictions, top>>
        /\ phase' \in {"failed", "preflight", "train"}
    BY <1>1 DEF PrepareUpload, PreflightUpload, PreflightReviewed
  <2>2. QED
    BY <1>0, <2>1, LocallyKept DEF Fetched, Remotely
<1>2. CASE TransferFails \/ ConnectionLost \/ Refused \/ CommandFails \/ TimedOut
  <2>1. /\ UNCHANGED <<aim, candidates, predictions, top>> /\ phase' = "failed"
        /\ local'.step = "none"
    BY <1>2 DEF TransferFails, ConnectionLost, Refused, CommandFails, TimedOut, Fail, NoWait
  <2>2. QED
    BY <1>0, <2>1, LocallyKept DEF Fetched, Remotely
<1>3. CASE BeginStage
  <2>1. /\ UNCHANGED <<aim, candidates, predictions, top, phase>>
        /\ local'.step = "directory" /\ remote'.state = "none"
    BY <1>3 DEF BeginStage, Wait, NoCommand
  <2>2. QED
    BY <1>0, <2>1, LocallyKept DEF Fetched, Remotely
<1>4. CASE Transfer
  <2>1. /\ UNCHANGED <<aim, candidates, predictions, top, phase, remote>>
        /\ local.step \in {"directory", "upload", "fetch output"}
        /\ local'.step = Steps[1 + CHOOSE i \in 1..4 : Steps[i] = local.step]
    BY <1>4 DEF Transfer, Wait
  <2>2. local.step = "fetch output" \/ local'.step \in {"upload", "command"}
    BY <2>1, NextStep
  <2>3. Fetched'
    BY <1>0, <2>1, <2>2 DEF Fetched
  <2>4. QED
    BY <1>0, <2>1, <2>3, LocallyKept DEF Remotely
<1>5. CASE CommandReturns
  <2>1. UNCHANGED <<aim, candidates, predictions, top, phase, remote>> /\ remote.state = "done"
    BY <1>5 DEF CommandReturns
  <2>2. QED
    BY <1>0, <2>1, LocallyKept DEF Fetched, Remotely
<1>6. CASE StageEnds
  <2>1. /\ UNCHANGED <<aim, top>> /\ local'.step = "none" /\ remote'.state = "none"
        /\ remote.state = "done" /\ phase \in RemoteStages
    BY <1>0, <1>6 DEF StageEnds, NoWait, NoCommand, Fetched, WaitsInStage
  <2>2. Fetched' /\ Remotely'
    BY <2>1 DEF Fetched, Remotely
  <2>3. CASE phase = "train"
    <3>1. phase' = "generate" /\ UNCHANGED <<candidates, predictions>>
      BY <1>6, <2>3 DEF StageEnds
    <3>2. QED
      BY <1>0, <2>1, <2>2, <3>1, LocallyKept
  <2>4. CASE phase = "generate"
    <3>1. phase' = "predict" /\ candidates' = remote.found
      BY <1>6, <2>4 DEF StageEnds
    <3>2. Listed(candidates')
      BY <1>0, <2>1, <2>4, <3>1 DEF Remotely
    <3>3. QED
      BY <2>2, <3>1, <3>2 DEF Locally
  <2>5. CASE phase = "predict"
    <3>1. /\ phase' = "evaluate" /\ UNCHANGED candidates
          /\ predictions' = [i \in 1..Len(candidates) |->
                               [id |-> candidates[i].id, molecule |-> candidates[i].molecule,
                                value |-> remote.scores[i]]]
      BY <1>6, <2>5 DEF StageEnds
    <3>2. Listed(candidates) /\ remote.scores \in [1..Len(candidates) -> Scores]
      BY <1>0, <2>1, <2>5 DEF Remotely, Locally
    <3>3. PredictedAll(predictions')
      BY <3>1, <3>2, ScoringPredicts
    <3>4. QED
      BY <2>2, <3>1, <3>2, <3>3 DEF Locally
  <2>6. QED
    BY <2>1, <2>3, <2>4, <2>5 DEF RemoteStages
<1>7. CASE Evaluate
  <2>1. /\ UNCHANGED <<aim, candidates, predictions, local, remote>>
        /\ phase = "evaluate" /\ phase' = "done"
    BY <1>7 DEF Evaluate
  <2>2. PICK s \in SetToSeqs(Range(predictions)) :
          /\ \A i, j \in DOMAIN s : i < j => Before(s[i], s[j])
          /\ top' = SubSeq(s, 1, Min({TopN, Len(predictions)}))
    BY <1>7 DEF Evaluate
  <2>3. Listed(candidates) /\ PredictedAll(predictions)
    BY <1>0, <2>1 DEF Locally
  <2>4. Ranked(aim, predictions, top')
    BY <2>2, <2>3, SortedIsRanked
  <2>5. QED
    BY <1>0, <2>1, <2>3, <2>4 DEF Fetched, Remotely, Locally
<1>8. QED
  BY <1>1, <1>2, <1>3, <1>4, <1>5, <1>6, <1>7 DEF Host

LEMMA MachineKeepsList ==
  ASSUME ListInv, Machine
  PROVE  Fetched' /\ Remotely' /\ Locally'
<1>0. Clocks /\ Fetched /\ Remotely /\ Locally
  BY DEF ListInv
<1>1. UNCHANGED <<aim, phase, candidates, predictions, top, local>>
  BY DEF Machine, CommandStarts, Trained, Attempt, Generated, Predicted, CommandBreaks, Terminated,
         Rest
<1>2. Locally'
  BY <1>0, <1>1, LocallyKept
<1>3. Running \/ local.step = "command"
  BY DEF Machine, CommandStarts, Trained, Attempt, Generated, Predicted, CommandBreaks, Terminated
<1>4. Fetched'
  BY <1>0, <1>1, <1>3 DEF Fetched, Clocks
<1>5. CASE CommandStarts
  <2>1. remote'.state = "running" /\ remote'.found = <<>>
    BY <1>5 DEF CommandStarts, NoCommand
  <2>2. QED
    BY <1>2, <1>4, <2>1, NothingPicked DEF Remotely
<1>6. CASE CommandBreaks \/ Terminated
  <2>1. remote'.state = "broken"
    BY <1>0, <1>6 DEF CommandBreaks, Terminated, Ended, Clocks
  <2>2. QED
    BY <1>2, <1>4, <2>1 DEF Remotely
<1>7. CASE Trained
  <2>1. phase' = "train"
    BY <1>1, <1>7 DEF Trained
  <2>2. QED
    BY <1>2, <1>4, <2>1 DEF Remotely
<1>8. CASE Attempt
  <2>1. phase = "generate" /\ remote.state = "running"
    BY <1>8 DEF Attempt, Running
  <2>2. PICK b \in Samples :
          remote' = [remote EXCEPT !.attempts = @ + 1, !.found = FoldLeft(Keep, @, b)]
    BY <1>8 DEF Attempt
  <2> DEFINE f == FoldLeft(Keep, remote.found, b)
             m == remote.attempts + 1
  <2>3. Picked(f)
    BY <1>0, <2>1, AttemptPicks DEF Remotely
  <2> HIDE DEF f, m
  <2>4. remote' = [remote EXCEPT !.attempts = m, !.found = f]
    BY <2>2, Zenon DEF f, m
  <2>5. remote'.state = "running" /\ remote'.found = f
    BY <1>0, <2>1, <2>4 DEF Clocks
  <2>6. QED
    BY <1>1, <1>2, <1>4, <2>1, <2>3, <2>5 DEF Remotely
<1>9. CASE Generated
  <2>1. phase = "generate" /\ remote.state = "running" /\ Picked(remote.found)
    BY <1>0, <1>9 DEF Generated, Running, Remotely
  <2>2. CASE Ended("broken")
    <3>1. remote'.state = "broken"
      BY <1>0, <2>2 DEF Ended, Clocks
    <3>2. QED
      BY <1>2, <1>4, <3>1 DEF Remotely
  <2>3. CASE ~Ended("broken")
    <3>1. PICK ids \in SetToSeqs(1..Len(remote.found)) :
            remote' = [remote EXCEPT !.state = "done", !.attempts = 0,
              !.found = [i \in DOMAIN @ |-> [id |-> ids[i], molecule |-> @[i]]]]
      BY <1>9, <2>3 DEF Generated
    <3>2. Len(remote.found) >= CandidateCount
      BY <1>9, <2>3 DEF Generated, Enough
    <3> DEFINE c == [i \in DOMAIN remote.found |-> [id |-> ids[i], molecule |-> remote.found[i]]]
    <3>3. Listed(c)
      BY <2>1, <3>2, NamingLists
    <3>4. remote' = [remote EXCEPT !.state = "done", !.attempts = 0, !.found = c]
      BY <3>1
    <3> HIDE DEF c
    <3>5. remote'.state = "done" /\ remote'.found = c
      BY <1>0, <3>4 DEF Clocks
    <3>6. QED
      BY <1>1, <1>2, <1>4, <2>1, <3>3, <3>5 DEF Remotely
  <2>4. QED
    BY <2>2, <2>3
<1>10. CASE Predicted
  <2>1. phase = "predict"
    BY <1>10 DEF Predicted
  <2>2. PICK scores \in [1..Len(candidates) -> Scores] :
          remote' = [remote EXCEPT !.state = "done", !.scores = scores]
    BY <1>10 DEF Predicted
  <2>3. remote'.state = "done" /\ remote'.scores = scores
    BY <1>0, <2>2 DEF Clocks
  <2>4. QED
    BY <1>1, <1>2, <1>4, <2>1, <2>3 DEF Remotely
<1>11. QED
  BY <1>5, <1>6, <1>7, <1>8, <1>9, <1>10 DEF Machine

LEMMA TickKeepsList ==
  ASSUME ListInv, Tick
  PROVE  Fetched' /\ Remotely' /\ Locally'
<1>0. Clocks /\ Fetched /\ Remotely /\ Locally
  BY DEF ListInv
<1>1. /\ UNCHANGED <<aim, phase, candidates, predictions, top>>
      /\ local' = local \/ local' = [local EXCEPT !.elapsed = @ + 1]
      /\ remote' = remote \/ remote' = [remote EXCEPT !.elapsed = Min({@ + 1, LocalLimit})]
  BY DEF Tick
<1>2. local'.step = local.step
  BY <1>0, <1>1 DEF Clocks
<1>3. PICK e : remote' = remote \/ remote' = [remote EXCEPT !.elapsed = e]
  BY <1>1
<1>4. remote'.state = remote.state /\ remote'.found = remote.found /\ remote'.scores = remote.scores
  BY <1>0, <1>3 DEF Clocks
<1>5. QED
  BY <1>0, <1>1, <1>2, <1>4, LocallyKept DEF Fetched, Remotely

LEMMA ListInvStep == ListInv /\ [ScienceNext]_both => ListInv'
<1> SUFFICES ASSUME ListInv, ScienceNext \/ UNCHANGED both PROVE ListInv'
  OBVIOUS
<1>1. Clocks' /\ WaitsInStage'
  BY ClocksStep, WaitsStep DEF ListInv
<1>2. CASE UNCHANGED science
  BY <1>1, <1>2, LocallyKept DEF ListInv, science, Fetched, Remotely
<1>3. CASE Host \/ Machine \/ Tick
  BY <1>1, <1>3, HostKeepsList, MachineKeepsList, TickKeepsList DEF ListInv
<1>4. QED
  BY <1>2, <1>3 DEF ScienceNext, both

\* For every count, batch and score: what is ranked is exactly as many molecules as
\* were asked for, no two the same, and the list is the best of them in the asked
\* direction (the generation script, TopNEvaluationService).
THEOREM ListIsExact == ScienceSpec => []ListExact
<1>1. ScienceSpec => ScienceInit /\ [][ScienceNext]_both
  BY DEF ScienceSpec
<1>2. ListInv => ListExact
  <2> SUFFICES ASSUME ListInv PROVE ListExact
    OBVIOUS
  <2>1. RankingExact
    BY RankingIsRanked DEF ListInv, Locally
  <2>2. CandidatesExact
    <3> SUFFICES ASSUME candidates # <<>> PROVE
          /\ Len(candidates) = CandidateCount
          /\ \A i, j \in DOMAIN candidates : i # j =>
               candidates[i].molecule # candidates[j].molecule /\ candidates[i].id # candidates[j].id
      BY DEF CandidatesExact
    <3>1. Listed(candidates)
      BY DEF ListInv, Locally
    <3>2. DOMAIN candidates = 1..Len(candidates)
      BY <3>1 DEF Listed
    <3>3. QED
      BY <3>1, <3>2 DEF Listed
  <2>3. QED
    BY <2>1, <2>2 DEF ListExact
<1>3. QED
  BY <1>1, <1>2, InitListInv, ListInvStep, PTL

================================================================================
