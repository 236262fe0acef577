-------------------------- MODULE ScmSessionProofs --------------------------
(***************************************************************************)
(* Proofs about ScmSession, for any sets of calls, clones and owners, any  *)
(* number of retries and any number of faults.                             *)
(***************************************************************************)
EXTENDS ScmSession, FiniteSetTheorems, TLAPS

-----------------------------------------------------------------------------
(* The inductive invariant.                                                *)

\* A job that is not over has tries left and no outcome.
TriesLeft ==
    \A j \in Jobs : pc[j] # "done" =>
        /\ outcome[j] = "none"
        /\ j \in Calls => try[j] < Retries
        /\ j \in Clones => try[j] <= 1

\* Tokens are issued to jobs; the cache has them under the key of the job.
TokensOwned ==
    \A t \in 1..Len(tokens) : \E i \in Jobs :
        tokens[t].owner = owner[i] /\ tokens[t].key = Key(i)

CacheKeyed ==
    \A k \in Keys : cache[k] # 0 => tokens[cache[k]].key = k

HeldKeyed ==
    \A j \in Jobs : token[j] # 0 => tokens[token[j]].key = Key(j)

\* A token in use was not past its expiry when it was taken, and after a
\* failed try it is one that the job has renewed itself.
HeldFresh ==
    \A j \in Jobs : pc[j] = "send" =>
        /\ token[j] # 0
        /\ j \in lapsed \/ ~tokens[token[j]].expired
        /\ \/ j \in lapsed
           \/ try[j] = 0
           \/ ~tokens[token[j]].revoked /\ tokens[token[j]].owner = owner[j]

\* A call that was refused had a token.
RefusedHeld ==
    \A j \in Calls : outcome[j] = "unauthorized" => token[j] # 0

\* Before a job has its token, a directory exists only where the cloner of a
\* service principal has made it.
DirsHeld ==
    \A j \in dirs :
        /\ pc[j] # "idle"
        /\ scheme = "github_app" => pc[j] \notin {"lock", "post", "hung"}

\* Only the holder of the lock asks for a token, and as long as it does, the
\* reason for it persists.
RenewalLocked ==
    \A j \in Jobs :
        /\ pc[j] \in {"post", "hung"} => lock = {j}
        /\ pc[j] = "post" => ForceReauth(j) \/ ~Usable(j)

\* The tokens of a key that were asked for because there was none, and those
\* that have expired.
Unforced(k) ==
    {t \in 1..Len(tokens) : tokens[t].key = k /\ ~tokens[t].forced}

Expired(k) ==
    {t \in 1..Len(tokens) : tokens[t].key = k /\ tokens[t].expired}

Current(k) == cache[k] # 0 /\ ~tokens[cache[k]].expired

\* There is one more of the former only while the cached token is good.
RenewalsCounted ==
    \A k \in Keys :
        /\ Current(k) => Cardinality(Unforced(k)) <= Cardinality(Expired(k)) + 1
        /\ ~Current(k) => Cardinality(Unforced(k)) <= Cardinality(Expired(k))

IInv ==
    /\ TypeOK
    /\ TriesLeft
    /\ TokensOwned /\ CacheKeyed /\ HeldKeyed
    /\ HeldFresh
    /\ RefusedHeld /\ RefusalHasCause
    /\ CloneHeals
    /\ DirsHeld /\ DirsRemoved
    /\ RenewalLocked
    /\ RenewalsCounted

-----------------------------------------------------------------------------
(* What the steps do to the tokens.                                        *)

\* No step changes the scheme or the owners.
LEMMA SchemeKept ==
    ASSUME [Next]_vars
    PROVE  scheme' = scheme /\ owner' = owner
BY DEF Next, vars, Step, Start, NoIds, Cached, Renew, Issued, NotIssued, Hangs,
       CallSucceeds, CallRefused, CallFails, CallRaises, Answered, Git, Cloned,
       CloneRefused, CloneFails, Scanned, Lapse

\* The key of a job is a key of the cache.
LEMMA KeyTyped ==
    ASSUME TypeOK, NEW j \in Jobs
    PROVE  Key(j) \in Keys
<1>1. owner[j] \in Owners
  BY DEF TypeOK
<1>2. CASE scheme = "github_app"
  BY <1>1, <1>2 DEF Key, Keys
<1>3. CASE scheme = "ado_sp" /\ j \in Calls
  BY <1>1, <1>3 DEF Key, Keys
<1>4. CASE scheme = "ado_sp" /\ j \notin Calls
  BY <1>1, <1>4 DEF Key, Keys
<1> QED BY <1>2, <1>3, <1>4 DEF TypeOK

\* A job keeps its key.
LEMMA KeyFixed ==
    ASSUME [Next]_vars
    PROVE  \A j \in Jobs : Key(j)' = Key(j)
BY SchemeKept DEF Key

\* Only three actions give a token to a job, to the cache or to the SCM.
LEMMA TokensQuiet ==
    ASSUME [Next]_vars,
           ~\E j \in Jobs : Cached(j) \/ Issued(j),
           ~\E t \in DOMAIN tokens : Lapse(t)
    PROVE  UNCHANGED <<token, tokens, cache, lapsed>>
BY DEF Next, vars, Step, Start, NoIds, Renew, NotIssued, Hangs,
       CallSucceeds, CallRefused, CallFails, CallRaises, Answered, Git, Cloned,
       CloneRefused, CloneFails, Scanned

\* A new token is the last one; the others stay as they are.
LEMMA IssuedEffect ==
    ASSUME TypeOK, NEW j \in Jobs, Issued(j)
    PROVE  /\ tokens' \in Seq(Token)
           /\ Len(tokens') = Len(tokens) + 1
           /\ \A t \in 1..Len(tokens) : tokens'[t] = tokens[t]
           /\ tokens'[Len(tokens) + 1].owner = owner[j]
           /\ tokens'[Len(tokens) + 1].key = Key(j)
           /\ ~tokens'[Len(tokens) + 1].expired
           /\ ~tokens'[Len(tokens) + 1].revoked
           /\ tokens'[Len(tokens) + 1].forced = ForceReauth(j)
<1> DEFINE new == [owner |-> owner[j], key |-> Key(j), expired |-> FALSE,
                   revoked |-> FALSE, forced |-> ForceReauth(j)]
<1>1. new \in Token
  <2>1. ForceReauth(j) \in BOOLEAN
    BY DEF ForceReauth
  <2>2. owner[j] \in Owners /\ Key(j) \in Keys
    BY KeyTyped DEF TypeOK
  <2> QED BY <2>1, <2>2 DEF Token
<1>2. tokens' = Append(tokens, new) /\ tokens \in Seq(Token)
  BY DEF Issued, TypeOK
<1> HIDE DEF new
<1>3. /\ tokens' \in Seq(Token)
      /\ Len(tokens') = Len(tokens) + 1
      /\ \A t \in 1..Len(tokens) : tokens'[t] = tokens[t]
      /\ tokens'[Len(tokens) + 1] = new
  BY <1>1, <1>2
<1>4. /\ new.owner = owner[j] /\ new.key = Key(j)
      /\ ~new.expired /\ ~new.revoked
      /\ new.forced = ForceReauth(j)
  BY DEF new
<1> QED BY <1>3, <1>4

\* A token that lapses keeps its owner and its key, and no flag is ever cleared.
LEMMA LapseEffect ==
    ASSUME TypeOK, NEW t \in DOMAIN tokens, Lapse(t)
    PROVE  /\ tokens' \in Seq(Token)
           /\ Len(tokens') = Len(tokens)
           /\ \A u \in 1..Len(tokens) :
                 /\ tokens'[u].owner = tokens[u].owner
                 /\ tokens'[u].key = tokens[u].key
                 /\ tokens'[u].forced = tokens[u].forced
                 /\ tokens[u].expired => tokens'[u].expired
                 /\ tokens[u].revoked => tokens'[u].revoked
                 /\ u # t => tokens'[u] = tokens[u]
<1>1. tokens \in Seq(Token) /\ t \in 1..Len(tokens)
  BY DEF TypeOK
<1>2. tokens[t] \in Token
  BY <1>1
<1> DEFINE Aged(new) ==
             /\ new \in Token
             /\ tokens' = [tokens EXCEPT ![t] = new]
             /\ new.owner = tokens[t].owner /\ new.key = tokens[t].key
             /\ new.forced = tokens[t].forced
             /\ tokens[t].expired => new.expired
             /\ tokens[t].revoked => new.revoked
<1>3. \E new : Aged(new)
  <2>1. CASE tokens' = [tokens EXCEPT ![t].expired = TRUE]
    <3>1. Aged([tokens[t] EXCEPT !.expired = TRUE])
      BY <1>2, <2>1 DEF Token
    <3> QED BY <3>1
  <2>2. CASE tokens' = [tokens EXCEPT ![t].revoked = TRUE]
    <3>1. Aged([tokens[t] EXCEPT !.revoked = TRUE])
      BY <1>2, <2>2 DEF Token
    <3> QED BY <3>1
  <2> QED BY <2>1, <2>2 DEF Lapse
<1> PICK new : Aged(new)
  BY <1>3
<1>4. /\ tokens' \in Seq(Token)
      /\ Len(tokens') = Len(tokens)
      /\ \A u \in 1..Len(tokens) : tokens'[u] =
            IF u = t THEN new ELSE tokens[u]
  BY <1>1, <1>3
<1> QED BY <1>3, <1>4
-----------------------------------------------------------------------------
(* Types and tries.                                                        *)

\* A fault is counted and the count stays within its bound.
LEMMA FaultCounted ==
    ASSUME TypeOK, Fault
    PROVE  faults' \in 0..MaxFaults
BY SessionAssumption DEF TypeOK, Fault

\* Every step keeps the types and leaves a job that sends at least one try.
LEMMA TypesKept ==
    ASSUME TypeOK, TriesLeft, [Next]_vars
    PROVE  TypeOK' /\ TriesLeft'
<1> USE SessionAssumption DEF TypeOK, TriesLeft, Jobs, Places, Outcomes
<1>1. ASSUME NEW j \in Jobs, Start(j) PROVE TypeOK' /\ TriesLeft'
  BY <1>1 DEF Start
<1>2. ASSUME NEW j \in Jobs, Cached(j) PROVE TypeOK' /\ TriesLeft'
  BY <1>2, KeyTyped DEF Cached, Take
<1>3. ASSUME NEW j \in Jobs, Renew(j) PROVE TypeOK' /\ TriesLeft'
  BY <1>3 DEF Renew
<1>4. ASSUME NEW j \in Jobs, Issued(j) PROVE TypeOK' /\ TriesLeft'
  <2>1. /\ tokens' \in Seq(Token)
        /\ Len(tokens') = Len(tokens) + 1
    BY <1>4, IssuedEffect
  <2>2. Len(tokens) \in Nat /\ Key(j) \in Keys
    BY KeyTyped
  <2> HIDE DEF TypeOK
  <2>3. /\ token' \in [Jobs -> 0..Len(tokens')]
        /\ cache' \in [Keys -> 0..Len(tokens')]
    BY <1>4, <2>1, <2>2 DEF Issued, Take, TypeOK
  <2>4. /\ pc' \in [Jobs -> Places] /\ lock' \subseteq Jobs
        /\ dirs' \subseteq Clones /\ lapsed' \subseteq Jobs
        /\ UNCHANGED <<scheme, owner, try, outcome, faults>>
    BY <1>4 DEF Issued, Take, TypeOK
  <2>5. TriesLeft'
    BY <1>4 DEF Issued, Take, TypeOK
  <2> QED BY <2>1, <2>3, <2>4, <2>5 DEF TypeOK
<1>5. ASSUME NEW j \in Jobs, CallSucceeds(j) \/ CallRefused(j)
      PROVE  TypeOK' /\ TriesLeft'
  BY <1>5, FaultCounted DEF CallSucceeds, CallRefused, Answered, End
<1>6. ASSUME NEW j \in Jobs, Cloned(j) PROVE TypeOK' /\ TriesLeft'
  BY <1>6 DEF Cloned, Git
<1>7. ASSUME NEW j \in Jobs, CloneRefused(j) PROVE TypeOK' /\ TriesLeft'
  <2>1. try[j] \in 0..1 /\ j \in Clones /\ j \notin Calls
    <3>1. pc[j] = "send" /\ j \in Clones
      BY <1>7 DEF CloneRefused, Git
    <3>2. try[j] \in 0..Retries + 1 /\ try[j] <= 1
      BY <3>1
    <3> QED BY <3>1, <3>2
  <2>2. try' \in [Jobs -> 0..Retries + 1]
    <3>1. try[j] + 1 \in 0..Retries + 1
      BY <2>1
    <3> QED BY <1>7, <3>1 DEF CloneRefused
  <2>3. TypeOK'
    BY <1>7, <2>2 DEF CloneRefused, Git, End, Cleanup
  <2>4. CASE try[j] = 0
    <3>1. /\ pc' = [pc EXCEPT ![j] = "idle"] /\ outcome' = outcome
          /\ try' = [try EXCEPT ![j] = 1]
      BY <1>7, <2>4 DEF CloneRefused
    <3>2. pc[j] # "done"
      BY <1>7 DEF CloneRefused, Git
    <3> QED BY <2>1, <2>3, <3>1, <3>2
  <2>5. CASE try[j] # 0
    <3>1. pc'[j] = "done" /\ \A i \in Jobs \ {j} :
             pc'[i] = pc[i] /\ outcome'[i] = outcome[i] /\ try'[i] = try[i]
      BY <1>7, <2>5 DEF CloneRefused, End
    <3> QED BY <2>3, <3>1
  <2> QED BY <2>4, <2>5
<1>8. ASSUME NEW j \in Jobs, CloneFails(j) \/ Scanned(j)
      PROVE  TypeOK' /\ TriesLeft'
  BY <1>8, FaultCounted DEF CloneFails, Scanned, Git, End, Cleanup
<1>9. ASSUME NEW j \in Jobs, NoIds(j) \/ NotIssued(j)
      PROVE  TypeOK' /\ TriesLeft'
  BY <1>9, FaultCounted DEF NoIds, NotIssued, End, Unlock
<1>10. ASSUME NEW j \in Jobs, Hangs(j) PROVE TypeOK' /\ TriesLeft'
  BY <1>10, FaultCounted DEF Hangs
<1>11. ASSUME NEW j \in Jobs, CallFails(j) PROVE TypeOK' /\ TriesLeft'
  <2>1. try[j] \in 0..Retries - 1 /\ j \notin Clones
    <3>1. pc[j] = "send" /\ j \in Calls
      BY <1>11 DEF CallFails, Answered
    <3>2. try[j] \in 0..Retries + 1 /\ try[j] < Retries
      BY <3>1
    <3> QED BY <3>1, <3>2
  <2>2. try' \in [Jobs -> 0..Retries + 1]
    <3>1. try[j] + 1 \in 0..Retries + 1
      BY <2>1
    <3> QED BY <1>11, <3>1 DEF CallFails
  <2>3. TypeOK'
    BY <1>11, <2>2, FaultCounted DEF CallFails, Answered, End
  <2>4. /\ \/ pc'[j] = "done"
           \/ outcome'[j] = "none" /\ try'[j] < Retries
        /\ \A i \in Jobs \ {j} :
             pc'[i] = pc[i] /\ outcome'[i] = outcome[i] /\ try'[i] = try[i]
    BY <1>11, <2>1 DEF CallFails, Answered, End
  <2> QED BY <2>1, <2>3, <2>4
<1>12. ASSUME NEW j \in Jobs, CallRaises(j) PROVE TypeOK' /\ TriesLeft'
  BY <1>12, FaultCounted DEF CallRaises, Answered, End
<1>13. ASSUME NEW t \in DOMAIN tokens, Lapse(t) PROVE TypeOK' /\ TriesLeft'
  <2>1. tokens' \in Seq(Token) /\ Len(tokens') = Len(tokens)
    BY <1>13, LapseEffect
  <2> QED BY <1>13, <2>1, FaultCounted DEF Lapse
<1>14. CASE UNCHANGED vars
  BY <1>14 DEF vars
<1> QED
  BY <1>1, <1>2, <1>3, <1>4, <1>5, <1>6, <1>7, <1>8, <1>9, <1>10, <1>11, <1>12,
     <1>13, <1>14 DEF Next, Step

-----------------------------------------------------------------------------
(* Whose token a job holds.                                                *)

\* A token is made for the key of the job that asks for it, is cached under that
\* key, and is taken from there by jobs with the same key.
LEMMA KeysKept ==
    ASSUME TypeOK, TypeOK', TokensOwned, CacheKeyed, HeldKeyed, [Next]_vars
    PROVE  TokensOwned' /\ CacheKeyed' /\ HeldKeyed'
<1>1. owner' = owner /\ \A j \in Jobs : Key(j)' = Key(j)
  BY SchemeKept, KeyFixed
<1>2. /\ Len(tokens) \in Nat
      /\ token \in [Jobs -> 0..Len(tokens)] /\ cache \in [Keys -> 0..Len(tokens)]
  BY DEF TypeOK
<1>3. ASSUME NEW j \in Jobs, Cached(j)
      PROVE  TokensOwned' /\ CacheKeyed' /\ HeldKeyed'
  <2>1. /\ tokens' = tokens /\ cache' = cache
        /\ token' = [token EXCEPT ![j] = cache[Key(j)]]
        /\ cache[Key(j)] # 0
    BY <1>3 DEF Cached, Take, Usable
  <2>2. tokens[cache[Key(j)]].key = Key(j)
    BY <2>1, KeyTyped DEF CacheKeyed
  <2> QED BY <1>1, <1>2, <2>1, <2>2
          DEF TokensOwned, CacheKeyed, HeldKeyed
<1>4. ASSUME NEW j \in Jobs, Issued(j)
      PROVE  TokensOwned' /\ CacheKeyed' /\ HeldKeyed'
  <2>1. /\ Len(tokens') = Len(tokens) + 1
        /\ \A t \in 1..Len(tokens) : tokens'[t] = tokens[t]
        /\ tokens'[Len(tokens) + 1].owner = owner[j]
        /\ tokens'[Len(tokens) + 1].key = Key(j)
    BY <1>4, IssuedEffect
  <2>2. /\ token' = [token EXCEPT ![j] = Len(tokens) + 1]
        /\ cache' = [cache EXCEPT ![Key(j)] = Len(tokens) + 1]
    BY <1>4 DEF Issued, Take
  <2>3. TokensOwned'
    BY <1>1, <1>2, <2>1 DEF TokensOwned
  <2>4. CacheKeyed'
    <3> SUFFICES ASSUME NEW k \in Keys, cache'[k] # 0
                 PROVE  tokens'[cache'[k]].key = k
      BY DEF CacheKeyed
    <3>1. CASE k = Key(j)
      BY <1>2, <2>1, <2>2, <3>1
    <3>2. CASE k # Key(j)
      <4>1. cache'[k] = cache[k] /\ cache[k] \in 1..Len(tokens)
        BY <1>2, <2>2, <3>2
      <4> QED BY <2>1, <4>1 DEF CacheKeyed
    <3> QED BY <3>1, <3>2
  <2>5. HeldKeyed'
    <3> SUFFICES ASSUME NEW i \in Jobs, token'[i] # 0
                 PROVE  tokens'[token'[i]].key = Key(i)
      BY <1>1 DEF HeldKeyed
    <3>1. CASE i = j
      BY <1>2, <2>1, <2>2, <3>1
    <3>2. CASE i # j
      <4>1. token'[i] = token[i] /\ token[i] \in 1..Len(tokens)
        BY <1>2, <2>2, <3>2
      <4> QED BY <2>1, <4>1 DEF HeldKeyed
    <3> QED BY <3>1, <3>2
  <2> QED BY <2>3, <2>4, <2>5
<1>5. ASSUME NEW t \in DOMAIN tokens, Lapse(t)
      PROVE  TokensOwned' /\ CacheKeyed' /\ HeldKeyed'
  <2>1. /\ Len(tokens') = Len(tokens)
        /\ \A u \in 1..Len(tokens) :
              /\ tokens'[u].owner = tokens[u].owner
              /\ tokens'[u].key = tokens[u].key
    BY <1>5, LapseEffect
  <2>2. token' = token /\ cache' = cache
    BY <1>5 DEF Lapse
  <2>3. \A j \in Jobs : token[j] # 0 => token[j] \in 1..Len(tokens)
    BY <1>2
  <2>4. \A k \in Keys : cache[k] # 0 => cache[k] \in 1..Len(tokens)
    BY <1>2
  <2> QED BY <1>1, <2>1, <2>2, <2>3, <2>4
          DEF TokensOwned, CacheKeyed, HeldKeyed
<1>6. CASE UNCHANGED <<token, tokens, cache, lapsed>>
  BY <1>1, <1>6 DEF TokensOwned, CacheKeyed, HeldKeyed
<1> QED BY <1>3, <1>4, <1>5, <1>6, TokensQuiet

\* A token of the right key is the job's own, unless the id of the
\* installation is used twice.
LEMMA KeyedIsOwn ==
    ASSUME TypeOK, TokensOwned, HeldKeyed
    PROVE  OwnToken
<1> SUFFICES ASSUME NEW j \in Jobs, token[j] # 0, ~Collides(j)
             PROVE  Own(j)
  BY DEF OwnToken
<1>1. token[j] \in 1..Len(tokens)
  BY DEF TypeOK
<1>2. PICK i \in Jobs :
         tokens[token[j]].owner = owner[i] /\ tokens[token[j]].key = Key(i)
  BY <1>1 DEF TokensOwned
<1>3. Key(i).of = Key(j).of
  BY <1>2 DEF HeldKeyed
<1>4. CASE scheme = "github_app"
  <2>1. owner[i].id = owner[j].id
    BY <1>3, <1>4 DEF Key
  <2> QED BY <1>2, <1>4, <2>1 DEF Own, Collides
<1>5. CASE scheme = "ado_sp"
  <2>1. \A n \in Jobs : Key(n).of = owner[n].server
    <3> TAKE n \in Jobs
    <3>1. CASE n \in Calls
      BY <1>5, <3>1 DEF Key
    <3>2. CASE n \notin Calls
      BY <1>5, <3>2 DEF Key
    <3> QED BY <3>1, <3>2
  <2> QED BY <1>2, <1>3, <1>5, <2>1 DEF Own
<1> QED BY <1>4, <1>5 DEF TypeOK

-----------------------------------------------------------------------------
(* In which state a token is used.                                         *)

\* The token a job holds was usable when the job took it.
LEMMA FreshKept ==
    ASSUME TypeOK, TypeOK', HeldFresh, [Next]_vars
    PROVE  HeldFresh'
<1>1. owner' = owner
  BY SchemeKept
<1>2. token \in [Jobs -> 0..Len(tokens)] /\ Len(tokens) \in Nat
  BY DEF TypeOK
<1>3. ASSUME NEW j \in Jobs, Cached(j) PROVE HeldFresh'
  <2>1. /\ tokens' = tokens /\ try' = try /\ try[j] = 0
        /\ token' = [token EXCEPT ![j] = cache[Key(j)]]
        /\ pc' = [pc EXCEPT ![j] = "send"] /\ lapsed' = lapsed \ {j}
        /\ cache[Key(j)] # 0 /\ ~tokens[cache[Key(j)]].expired
    BY <1>3 DEF Cached, Take, Usable, ForceReauth, TypeOK
  <2> QED BY <1>1, <1>2, <2>1 DEF HeldFresh, TypeOK
<1>4. ASSUME NEW j \in Jobs, Issued(j) PROVE HeldFresh'
  <2>1. /\ \A t \in 1..Len(tokens) : tokens'[t] = tokens[t]
        /\ tokens'[Len(tokens) + 1].owner = owner[j]
        /\ ~tokens'[Len(tokens) + 1].expired
        /\ ~tokens'[Len(tokens) + 1].revoked
    BY <1>4, IssuedEffect
  <2>2. /\ token' = [token EXCEPT ![j] = Len(tokens) + 1] /\ try' = try
        /\ pc' = [pc EXCEPT ![j] = "send"] /\ lapsed' = lapsed \ {j}
    BY <1>4 DEF Issued, Take
  <2> SUFFICES ASSUME NEW i \in Jobs, pc'[i] = "send"
               PROVE  /\ token'[i] # 0
                      /\ i \in lapsed' \/ ~tokens'[token'[i]].expired
                      /\ \/ i \in lapsed'
                         \/ try'[i] = 0
                         \/ /\ ~tokens'[token'[i]].revoked
                            /\ tokens'[token'[i]].owner = owner'[i]
    BY DEF HeldFresh
  <2>3. CASE i = j
    BY <1>1, <1>2, <2>1, <2>2, <2>3
  <2>4. CASE i # j
    <3>1. pc[i] = "send" /\ token'[i] = token[i]
      BY <1>2, <2>2, <2>4 DEF TypeOK
    <3>2. token[i] \in 1..Len(tokens)
      BY <1>2, <3>1 DEF HeldFresh
    <3> QED BY <1>1, <2>1, <2>2, <2>4, <3>1, <3>2 DEF HeldFresh
  <2> QED BY <2>3, <2>4
<1>5. ASSUME NEW t \in DOMAIN tokens, Lapse(t) PROVE HeldFresh'
  <2>1. \A u \in 1..Len(tokens) :
           /\ tokens'[u].owner = tokens[u].owner
           /\ u # t => tokens'[u] = tokens[u]
    BY <1>5, LapseEffect
  <2>2. /\ token' = token /\ try' = try /\ pc' = pc
        /\ lapsed' = lapsed \cup {j \in Jobs : pc[j] = "send" /\ token[j] = t}
    BY <1>5 DEF Lapse
  <2>3. \A j \in Jobs : token[j] # 0 => token[j] \in 1..Len(tokens)
    BY <1>2
  <2> QED BY <1>1, <2>1, <2>2, <2>3 DEF HeldFresh
<1>6. ASSUME UNCHANGED <<token, tokens, cache, lapsed>>,
             ~\E j \in Jobs : Cached(j) \/ Issued(j)
      PROVE  HeldFresh'
  <2>1. \A j \in Jobs : pc'[j] = "send" => pc[j] = "send" /\ try'[j] = try[j]
    BY <1>6
       DEF Next, vars, Step, Start, NoIds, Renew, NotIssued, Hangs, End,
           CallSucceeds, CallRefused, CallFails, CallRaises, Answered, Git,
           Cloned, CloneRefused, CloneFails, Scanned, Lapse, TypeOK
  <2> QED BY <1>1, <1>6, <2>1 DEF HeldFresh
<1> QED BY <1>3, <1>4, <1>5, <1>6, TokensQuiet

-----------------------------------------------------------------------------
(* How jobs end.                                                           *)

\* Nothing happens to a job that is over, except that its token may lapse.
LEMMA DoneStays ==
    ASSUME TypeOK, [Next]_vars, NEW j \in Jobs, pc[j] = "done"
    PROVE  /\ pc'[j] = "done" /\ outcome'[j] = outcome[j]
           /\ token'[j] = token[j] /\ try'[j] = try[j]
           /\ j \in lapsed => j \in lapsed'
BY DEF Next, vars, Step, Start, NoIds, Cached, Take, Renew, Issued, NotIssued,
       Hangs, End, CallSucceeds, CallRefused, CallFails, CallRaises, Answered,
       Git, Cloned, CloneRefused, CloneFails, Scanned, Lapse, TypeOK

\* The flags of a token are never cleared.
LEMMA FlagsStay ==
    ASSUME TypeOK, [Next]_vars, NEW t \in 1..Len(tokens), tokens[t].revoked
    PROVE  tokens'[t].revoked
<1>1. CASE \E j \in Jobs : Cached(j)
  BY <1>1 DEF Cached
<1>2. CASE \E j \in Jobs : Issued(j)
  BY <1>2, IssuedEffect
<1>3. CASE \E u \in DOMAIN tokens : Lapse(u)
  BY <1>3, LapseEffect
<1> QED BY <1>1, <1>2, <1>3, TokensQuiet

\* A call is refused with a token that does not work, and a clone gives up at
\* its second refusal.
LEMMA RefusedBy ==
    ASSUME TypeOK, [Next]_vars, NEW j \in Jobs, outcome'[j] # outcome[j]
    PROVE  /\ outcome'[j] = "unauthorized" => CallRefused(j) /\ ~Works(j)
           /\ outcome'[j] = "gave_up" => CloneRefused(j) /\ try[j] # 0
BY DEF Next, vars, Step, Start, NoIds, Cached, Renew, Issued, NotIssued,
       Hangs, End, CallSucceeds, CallRefused, CallFails, CallRaises, Answered,
       Git, Cloned, CloneRefused, CloneFails, Scanned, Lapse, TypeOK

\* What may be wrong with a token that does not work.
LEMMA WhyRefused ==
    ASSUME TypeOK, HeldFresh, OwnToken, NEW j \in Jobs, pc[j] = "send",
           ~Works(j)
    PROVE  /\ token[j] \in 1..Len(tokens)
           /\ \/ j \in lapsed
              \/ try[j] = 0 /\ (Collides(j) \/ tokens[token[j]].revoked)
<1>1. token[j] # 0 /\ token[j] \in 1..Len(tokens)
  BY DEF HeldFresh, TypeOK
<1>2. CASE j \notin lapsed /\ try[j] = 0
  BY <1>1, <1>2 DEF HeldFresh, OwnToken, Works, Valid
<1>3. CASE j \notin lapsed /\ try[j] # 0
  <2>1. /\ ~tokens[token[j]].expired /\ ~tokens[token[j]].revoked
        /\ tokens[token[j]].owner = owner[j]
    BY <1>3 DEF HeldFresh
  <2>2. Works(j)
    BY <2>1 DEF Works, Valid, Own
  <2> QED BY <2>2
<1> QED BY <1>1, <1>2, <1>3

\* The last try of a call fails for a reason that is recorded.
LEMMA RefusalsKept ==
    ASSUME TypeOK, TriesLeft, HeldFresh, OwnToken, RefusalHasCause,
           RefusedHeld, [Next]_vars
    PROVE  RefusalHasCause' /\ RefusedHeld'
<1> SUFFICES ASSUME NEW j \in Calls, outcome'[j] = "unauthorized"
             PROVE  /\ \/ j \in lapsed'
                       \/ Collides(j)'
                       \/ tokens'[token'[j]].revoked /\ try'[j] = 0
                    /\ token'[j] # 0
  BY DEF RefusalHasCause, RefusedHeld
<1>1. j \in Jobs
  BY DEF Jobs
<1>2. Collides(j)' <=> Collides(j)
  BY SchemeKept DEF Collides
<1>3. CASE outcome[j] = "unauthorized"
  <2>1. pc[j] = "done"
    BY <1>1, <1>3 DEF TriesLeft
  <2>2. token[j] \in 1..Len(tokens) /\ token'[j] # 0
    BY <1>1, <1>3, <2>1, DoneStays DEF RefusedHeld, TypeOK
  <2>3. CASE tokens[token[j]].revoked /\ try[j] = 0
    BY <1>1, <2>1, <2>2, <2>3, DoneStays, FlagsStay
  <2>4. CASE j \in lapsed \/ Collides(j)
    BY <1>1, <1>2, <2>1, <2>2, <2>4, DoneStays
  <2> QED BY <1>3, <2>3, <2>4 DEF RefusalHasCause
<1>4. CASE outcome[j] # "unauthorized"
  <2>1. CallRefused(j) /\ ~Works(j)
    BY <1>1, <1>4, RefusedBy
  <2>2. /\ pc[j] = "send"
        /\ UNCHANGED <<token, tokens, try, lapsed>>
    BY <2>1 DEF CallRefused, Answered
  <2> QED BY <1>1, <1>2, <2>1, <2>2, WhyRefused
<1> QED BY <1>3, <1>4

\* A clone gives up only after it renewed its token.
LEMMA HealingKept ==
    ASSUME TypeOK, TriesLeft, HeldFresh, OwnToken, CloneHeals, [Next]_vars
    PROVE  CloneHeals'
<1> SUFFICES ASSUME NEW j \in Clones, outcome'[j] = "gave_up"
             PROVE  j \in lapsed'
  BY DEF CloneHeals
<1>1. j \in Jobs
  BY DEF Jobs
<1>2. CASE outcome[j] = "gave_up"
  <2>1. pc[j] = "done" /\ j \in lapsed
    BY <1>1, <1>2 DEF TriesLeft, CloneHeals
  <2> QED BY <1>1, <2>1, DoneStays
<1>3. CASE outcome[j] # "gave_up"
  <2>1. CloneRefused(j) /\ try[j] # 0
    BY <1>1, <1>3, RefusedBy
  <2>2. pc[j] = "send" /\ ~Works(j) /\ lapsed' = lapsed
    BY <2>1 DEF CloneRefused, Git
  <2> QED BY <1>1, <2>1, <2>2, WhyRefused
<1> QED BY <1>2, <1>3

-----------------------------------------------------------------------------
(* Directories.                                                            *)

\* A directory belongs to a running clone until it is removed.
LEMMA DirsKept ==
    ASSUME TypeOK, TypeOK', DirsHeld, DirsRemoved, [Next]_vars
    PROVE  DirsHeld' /\ DirsRemoved'
<1> USE SessionAssumption DEF TypeOK, DirsHeld, DirsRemoved, Jobs
<1>1. ASSUME NEW j \in Jobs, Start(j) PROVE DirsHeld' /\ DirsRemoved'
  BY <1>1 DEF Start
<1>2. ASSUME NEW j \in Jobs, Cached(j) PROVE DirsHeld' /\ DirsRemoved'
  BY <1>2 DEF Cached, Take
<1>3. ASSUME NEW j \in Jobs, Renew(j) \/ Hangs(j)
      PROVE  DirsHeld' /\ DirsRemoved'
  BY <1>3 DEF Renew, Hangs
<1>4. ASSUME NEW j \in Jobs, Issued(j) PROVE DirsHeld' /\ DirsRemoved'
  BY <1>4 DEF Issued, Take
<1>5. ASSUME NEW j \in Jobs,
             \/ CallSucceeds(j) \/ CallRefused(j) \/ CallFails(j)
             \/ CallRaises(j)
      PROVE  DirsHeld' /\ DirsRemoved'
  <2>1. /\ j \notin dirs /\ UNCHANGED <<scheme, dirs>>
        /\ \A i \in Jobs \ {j} : pc'[i] = pc[i] /\ outcome'[i] = outcome[i]
    BY <1>5 DEF CallSucceeds, CallRefused, CallFails, CallRaises, Answered, End
  <2> QED BY <2>1
<1>6. ASSUME NEW j \in Jobs,
             Cloned(j) \/ CloneRefused(j) \/ CloneFails(j) \/ Scanned(j)
      PROVE  DirsHeld' /\ DirsRemoved'
  BY <1>6 DEF Cloned, CloneRefused, CloneFails, Scanned, Git, End, Cleanup
<1>7. ASSUME NEW j \in Jobs, NoIds(j) \/ NotIssued(j)
      PROVE  DirsHeld' /\ DirsRemoved'
  BY <1>7 DEF NoIds, NotIssued, End
<1>8. ASSUME NEW t \in DOMAIN tokens, Lapse(t)
      PROVE  DirsHeld' /\ DirsRemoved'
  BY <1>8 DEF Lapse
<1>9. CASE UNCHANGED vars
  BY <1>9 DEF vars
<1> QED
  BY <1>1, <1>2, <1>3, <1>4, <1>5, <1>6, <1>7, <1>8, <1>9 DEF Next, Step

-----------------------------------------------------------------------------
(* Renewals.                                                               *)

\* The cached token of a job becomes usable only by its being issued.
LEMMA LockKept ==
    ASSUME TypeOK, TypeOK', RenewalLocked, [Next]_vars
    PROVE  RenewalLocked'
<1> USE DEF RenewalLocked
<1>1. scheme' = scheme /\ owner' = owner
  BY SchemeKept
<1>2. \A j \in Jobs : Key(j)' = Key(j) /\ Key(j) \in Keys
  BY KeyFixed, KeyTyped
<1>3. ASSUME NEW j \in Jobs, Renew(j) PROVE RenewalLocked'
  BY <1>2, <1>3 DEF Renew, Usable, ForceReauth, TypeOK
<1>4. ASSUME NEW j \in Jobs, Issued(j) PROVE RenewalLocked'
  <2>1. \A i \in Jobs \ {j} : pc'[i] \notin {"post", "hung"}
    BY <1>4 DEF Issued, Take, TypeOK
  <2>2. pc'[j] = "send"
    BY <1>4 DEF Issued, Take, TypeOK
  <2> QED BY <2>1, <2>2
<1>5. ASSUME NEW j \in Jobs, NotIssued(j) PROVE RenewalLocked'
  <2>1. \A i \in Jobs \ {j} : pc'[i] \notin {"post", "hung"}
    BY <1>5 DEF NotIssued, End, TypeOK
  <2>2. pc'[j] = "done"
    BY <1>5 DEF NotIssued, End, TypeOK
  <2> QED BY <2>1, <2>2
<1>6. ASSUME NEW t \in DOMAIN tokens, Lapse(t) PROVE RenewalLocked'
  <2>1. \A u \in 1..Len(tokens) : tokens[u].expired => tokens'[u].expired
    BY <1>6, LapseEffect
  <2>2. pc' = pc /\ try' = try /\ cache' = cache /\ lock' = lock
    BY <1>6 DEF Lapse
  <2>3. \A k \in Keys : cache[k] # 0 => cache[k] \in 1..Len(tokens)
    BY DEF TypeOK
  <2> QED BY <1>2, <2>1, <2>2, <2>3 DEF Usable, ForceReauth
<1>7. ASSUME NEW j \in Jobs,
             ~\E i \in Jobs : Renew(i) \/ Issued(i) \/ NotIssued(i),
             ~\E t \in DOMAIN tokens : Lapse(t),
             pc'[j] \in {"post", "hung"}
      PROVE  /\ pc[j] \in {"post", "hung"} /\ (pc'[j] = "post" => pc[j] = "post")
             /\ UNCHANGED <<tokens, cache, lock>> /\ try'[j] = try[j]
  <2> HIDE DEF RenewalLocked
  <2>1. UNCHANGED <<tokens, cache, lock>>
    BY <1>7
       DEF Next, vars, Step, Start, NoIds, Cached, Hangs, CallSucceeds,
           CallRefused, CallFails, CallRaises, Answered, Git, Cloned,
           CloneRefused, CloneFails, Scanned
  <2>2. pc[j] \in {"post", "hung"} /\ (pc'[j] = "post" => pc[j] = "post")
    BY <1>7
       DEF Next, vars, Step, Start, NoIds, Cached, Take, Hangs, End,
           CallSucceeds, CallRefused, CallFails, CallRaises, Answered, Git,
           Cloned, CloneRefused, CloneFails, Scanned, TypeOK
  <2>3. try'[j] = try[j]
    BY <1>7, <2>2
       DEF Next, vars, Step, Start, NoIds, Cached, Hangs, CallSucceeds,
           CallRefused, CallFails, CallRaises, Answered, Git, Cloned,
           CloneRefused, CloneFails, Scanned, TypeOK
  <2> QED BY <2>1, <2>2, <2>3
<1> QED BY <1>2, <1>3, <1>4, <1>5, <1>6, <1>7 DEF Usable, ForceReauth

\* Tokens can be counted.
LEMMA CountsFinite ==
    ASSUME TypeOK, NEW k
    PROVE  /\ IsFiniteSet(Unforced(k)) /\ Cardinality(Unforced(k)) \in Nat
           /\ IsFiniteSet(Expired(k)) /\ Cardinality(Expired(k)) \in Nat
<1>1. IsFiniteSet(1..Len(tokens))
  BY FS_Interval DEF TypeOK
<1>2. /\ Unforced(k) \in SUBSET (1..Len(tokens))
      /\ Expired(k) \in SUBSET (1..Len(tokens))
  BY DEF Unforced, Expired
<1>3. IsFiniteSet(Unforced(k)) /\ IsFiniteSet(Expired(k))
  BY <1>1, <1>2, FS_Subset
<1> QED BY <1>3, FS_CardinalityType

\* An unforced token is made only when the cached one has expired, and the lock
\* keeps the others from making a second one.
LEMMA CountsKept ==
    ASSUME TypeOK, TypeOK', CacheKeyed, RenewalLocked, RenewalsCounted,
           [Next]_vars
    PROVE  RenewalsCounted'
<1>1. \A j \in Jobs : Key(j)' = Key(j)
  BY KeyFixed
<1>2. /\ Len(tokens) \in Nat /\ cache \in [Keys -> 0..Len(tokens)]
      /\ tokens \in Seq(Token)
  BY DEF TypeOK
<1>3. ASSUME UNCHANGED <<tokens, cache>> PROVE RenewalsCounted'
  BY <1>1, <1>3 DEF RenewalsCounted, Current, Unforced, Expired
<1>4. ASSUME NEW j \in Jobs, Issued(j) PROVE RenewalsCounted'
  <2> DEFINE n == Len(tokens) + 1
  <2>1. /\ Len(tokens') = n /\ n \notin 1..Len(tokens)
        /\ 1..n = (1..Len(tokens)) \cup {n}
        /\ \A t \in 1..Len(tokens) : tokens'[t] = tokens[t]
        /\ tokens'[n].key = Key(j) /\ ~tokens'[n].expired
        /\ tokens'[n].forced = ForceReauth(j)
    BY <1>2, <1>4, IssuedEffect
  <2>2. cache' = [cache EXCEPT ![Key(j)] = n] /\ Key(j) \in Keys
    BY <1>4, KeyTyped DEF Issued
  <2>3. ForceReauth(j) \/ ~Current(Key(j))
    BY <1>4 DEF RenewalLocked, Issued, Usable, Current
  <2> HIDE DEF n
  <2> SUFFICES ASSUME NEW k \in Keys
               PROVE  /\ Current(k)' => Cardinality(Unforced(k)')
                            <= Cardinality(Expired(k)') + 1
                      /\ ~Current(k)' => Cardinality(Unforced(k)')
                            <= Cardinality(Expired(k)')
    BY DEF RenewalsCounted
  <2>4. Expired(k)' = Expired(k)
    BY <1>1, <2>1 DEF Expired
  <2>5. CASE k # Key(j)
    <3>1. cache'[k] = cache[k] /\ (cache[k] # 0 => cache[k] \in 1..Len(tokens))
      BY <1>2, <2>2, <2>5
    <3>2. Current(k)' <=> Current(k)
      BY <2>1, <3>1 DEF Current
    <3>3. Unforced(k)' = Unforced(k)
      BY <1>1, <2>1, <2>5 DEF Unforced
    <3> QED BY <2>4, <3>2, <3>3 DEF RenewalsCounted
  <2>6. CASE k = Key(j)
    <3>1. Current(k)'
      BY <1>2, <2>1, <2>2, <2>6 DEF Current, n
    <3>2. CASE ForceReauth(j)
      <4>1. Unforced(k)' = Unforced(k)
        BY <1>1, <2>1, <3>2 DEF Unforced
      <4> QED BY <2>4, <3>1, <4>1, CountsFinite DEF RenewalsCounted
    <3>3. CASE ~ForceReauth(j)
      <4>1. Unforced(k)' = Unforced(k) \cup {n} /\ n \notin Unforced(k)
        BY <1>1, <2>1, <2>6, <3>3 DEF Unforced
      <4>2. Cardinality(Unforced(k)') = Cardinality(Unforced(k)) + 1
        BY <4>1, FS_AddElement, CountsFinite
      <4>3. Cardinality(Unforced(k)) <= Cardinality(Expired(k))
        BY <2>3, <2>6, <3>3 DEF RenewalsCounted
      <4> QED BY <2>4, <3>1, <4>2, <4>3, CountsFinite
    <3> QED BY <3>2, <3>3
  <2> QED BY <2>5, <2>6
<1>5. ASSUME NEW t \in DOMAIN tokens, Lapse(t) PROVE RenewalsCounted'
  <2>1. /\ Len(tokens') = Len(tokens) /\ cache' = cache
        /\ \A u \in 1..Len(tokens) :
              /\ tokens'[u].key = tokens[u].key
              /\ tokens'[u].forced = tokens[u].forced
              /\ tokens[u].expired => tokens'[u].expired
    BY <1>5, LapseEffect DEF Lapse
  <2> SUFFICES ASSUME NEW k \in Keys
               PROVE  /\ Current(k)' => Cardinality(Unforced(k)')
                            <= Cardinality(Expired(k)') + 1
                      /\ ~Current(k)' => Cardinality(Unforced(k)')
                            <= Cardinality(Expired(k)')
    BY DEF RenewalsCounted
  <2>2. Unforced(k)' = Unforced(k) /\ Expired(k) \subseteq Expired(k)'
    BY <1>1, <2>1 DEF Unforced, Expired
  <2>3. /\ IsFiniteSet(Expired(k)) /\ Cardinality(Expired(k)) \in Nat
        /\ IsFiniteSet(Expired(k)') /\ Cardinality(Expired(k)') \in Nat
        /\ Cardinality(Unforced(k)) \in Nat
    <3>1. IsFiniteSet(1..Len(tokens))
      BY <1>2, FS_Interval
    <3>2. Expired(k)' \in SUBSET (1..Len(tokens))
      BY <2>1 DEF Expired
    <3>3. IsFiniteSet(Expired(k)')
      BY <3>1, <3>2, FS_Subset
    <3> QED BY <3>3, CountsFinite, FS_CardinalityType
  <2>4. Cardinality(Expired(k)) <= Cardinality(Expired(k)')
    BY <2>2, <2>3, FS_Subset
  <2>5. CASE Current(k) /\ ~Current(k)'
    <3> DEFINE c == cache[k]
    <3>1. c \in 1..Len(tokens) /\ ~tokens[c].expired /\ tokens'[c].expired
      BY <1>2, <2>1, <2>5 DEF Current
    <3>2. c \in Expired(k)' /\ c \notin Expired(k)
      BY <1>1, <1>2, <2>1, <3>1 DEF Expired, CacheKeyed
    <3>3. Cardinality(Expired(k) \cup {c}) = Cardinality(Expired(k)) + 1
      BY <2>3, <3>2, FS_AddElement
    <3>4. Cardinality(Expired(k) \cup {c}) <= Cardinality(Expired(k)')
      BY <2>2, <2>3, <3>2, FS_Subset
    <3> HIDE DEF c
    <3>5. Cardinality(Expired(k)) + 1 <= Cardinality(Expired(k)')
      BY <3>3, <3>4
    <3> QED BY <2>2, <2>3, <2>5, <3>5 DEF RenewalsCounted
  <2>6. CASE ~Current(k) /\ Current(k)'
    <3>1. cache[k] # 0 => cache[k] \in 1..Len(tokens)
      BY <1>2
    <3> QED BY <2>1, <2>6, <3>1 DEF Current
  <2>7. CASE Current(k)' <=> Current(k)
    BY <2>2, <2>3, <2>4, <2>7 DEF RenewalsCounted
  <2> QED BY <2>5, <2>6, <2>7
<1>6. ASSUME NEW j \in Jobs, Cached(j) PROVE UNCHANGED <<tokens, cache>>
  BY <1>6 DEF Cached
<1> QED BY <1>3, <1>4, <1>5, <1>6, TokensQuiet

-----------------------------------------------------------------------------
(* The invariant.                                                          *)

\* At first there are no tokens, jobs or directories.
LEMMA InitEstablishes ==
    ASSUME Init
    PROVE  IInv
<1>1. TypeOK
  BY SessionAssumption DEF Init, TypeOK, Places, Outcomes
<1>2. tokens = <<>> /\ Len(tokens) = 0 /\ 1..Len(tokens) = {}
  BY DEF Init
<1>3. TriesLeft
  BY SessionAssumption DEF Init, TriesLeft, Jobs
<1>4. TokensOwned /\ CacheKeyed /\ HeldKeyed
  BY <1>2 DEF Init, TokensOwned, CacheKeyed, HeldKeyed
<1>5. HeldFresh /\ RefusedHeld /\ RefusalHasCause /\ CloneHeals
  BY DEF Init, HeldFresh, RefusedHeld, RefusalHasCause, CloneHeals, Jobs
<1>6. DirsHeld /\ DirsRemoved /\ RenewalLocked
  BY DEF Init, DirsHeld, DirsRemoved, RenewalLocked
<1>7. RenewalsCounted
  <2>1. \A k : Unforced(k) = {} /\ Expired(k) = {}
    BY <1>2 DEF Unforced, Expired
  <2> QED BY <2>1, FS_EmptySet DEF RenewalsCounted
<1> QED BY <1>1, <1>3, <1>4, <1>5, <1>6, <1>7 DEF IInv

\* Every step keeps the invariant.
LEMMA NextKeeps ==
    ASSUME IInv, [Next]_vars
    PROVE  IInv'
<1> USE DEF IInv
<1>1. TypeOK' /\ TriesLeft'
  BY TypesKept
<1>2. TokensOwned' /\ CacheKeyed' /\ HeldKeyed'
  BY <1>1, KeysKept
<1>3. HeldFresh'
  BY <1>1, FreshKept
<1>4. RefusedHeld' /\ RefusalHasCause' /\ CloneHeals'
  BY KeyedIsOwn, RefusalsKept, HealingKept
<1>5. DirsHeld' /\ DirsRemoved'
  BY <1>1, DirsKept
<1>6. RenewalLocked' /\ RenewalsCounted'
  BY <1>1, LockKept, CountsKept
<1> QED BY <1>1, <1>2, <1>3, <1>4, <1>5, <1>6

\* The invariant holds of every behaviour.
LEMMA InvariantHolds == Spec => []IInv
<1>1. Init => IInv
  BY InitEstablishes
<1>2. IInv /\ [Next]_vars => IInv'
  BY NextKeeps
<1> QED BY <1>1, <1>2, PTL DEF Spec

-----------------------------------------------------------------------------
(* Theorems.                                                               *)

\* The variables of the session, the factories and the cloner keep their
\* types; in particular no job uses up more than its tries.
THEOREM TypeCorrect == Spec => []TypeOK
<1>1. IInv => TypeOK
  BY DEF IInv
<1> QED BY <1>1, InvariantHolds, PTL

\* A job uses a token of its own installation or service principal, unless
\* its installation id is also in use on another server.
THEOREM TokensAreOwn == Spec => []OwnToken
<1>1. IInv => OwnToken
  BY KeyedIsOwn DEF IInv
<1> QED BY <1>1, InvariantHolds, PTL

\* APISession.exec is refused for want of authorization only with a token
\* that lapsed in its hands, collides, or was revoked before the first try.
THEOREM RefusalsHaveCause == Spec => []RefusalHasCause
<1>1. IInv => RefusalHasCause
  BY DEF IInv
<1> QED BY <1>1, InvariantHolds, PTL

\* The second try of exec_clone_scan fails for want of authorization only if
\* the token that it renewed itself lapsed while git was running.
THEOREM ClonesHeal == Spec => []CloneHeals
<1>1. IInv => CloneHeals
  BY DEF IInv
<1> QED BY <1>1, InvariantHolds, PTL

\* However many jobs need a token of one factory's cache at the same time, it is
\* asked for once, and again once for each that has expired.
THEOREM RenewalsAreShared == Spec => []OneRenewal
<1>1. IInv => OneRenewal
  <2> SUFFICES ASSUME IInv, NEW k \in Keys
               PROVE  LET OfKey == {t \in DOMAIN tokens :
                                       tokens[t].key = k}
                      IN  Cardinality({t \in OfKey : ~tokens[t].forced}) <=
                          1 + Cardinality({t \in OfKey : tokens[t].expired})
    BY DEF OneRenewal
  <2> DEFINE OfKey == {t \in DOMAIN tokens : tokens[t].key = k}
  <2>1. DOMAIN tokens = 1..Len(tokens)
    BY DEF IInv, TypeOK
  <2>2. /\ {t \in OfKey : ~tokens[t].forced} = Unforced(k)
        /\ {t \in OfKey : tokens[t].expired} = Expired(k)
    BY <2>1 DEF Unforced, Expired
  <2>3. /\ Cardinality(Unforced(k)) \in Nat
        /\ Cardinality(Expired(k)) \in Nat
    BY CountsFinite DEF IInv
  <2>4. Cardinality(Unforced(k)) <= 1 + Cardinality(Expired(k))
    BY <2>3 DEF IInv, RenewalsCounted
  <2> QED BY <2>2, <2>4
<1> QED BY <1>1, InvariantHolds, PTL

\* A clone leaves its temporary directory behind only where a service
\* principal did not get a token.
THEOREM DirectoriesAreRemoved == Spec => []DirsRemoved
<1>1. IInv => DirsRemoved
  BY DEF IInv
<1> QED BY <1>1, InvariantHolds, PTL
=============================================================================
