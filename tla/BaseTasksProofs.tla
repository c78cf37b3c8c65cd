-------------------------- MODULE BaseTasksProofs ---------------------------
(***************************************************************************)
(* The themes of BaseTasks hold whatever the hosts, files, settings and    *)
(* answers are. The search for configuration files is a recursive          *)
(* function, which SequenceLemmas has the facts for.                       *)
(***************************************************************************)
EXTENDS BaseTasks, SequenceLemmas

-----------------------------------------------------------------------------
(***************************************************************************)
(* base/config: the files that are found and read                          *)
(***************************************************************************)

\* The identifiers of the tasks of base/config.
ConfigNames ==
  /\ ConfigTasks!Collect = "Base/Config/Collect"
  /\ ConfigTasks!Validate = "Base/Config/Validate"
  /\ ConfigTasks!AppName = "Base/Config/AppName"
  /\ ConfigTasks!ValidateHSM = "Base/Config/ValidateHSM"
  /\ ConfigTasks!LogLevel = "Base/Config/LogLevel"

\* They are what the module says.
LEMMA ConfigNamesHold == ConfigNames
BY DEF ConfigNames, ConfigTasks!Collect, ConfigTasks!Validate, ConfigTasks!AppName,
       ConfigTasks!ValidateHSM, ConfigTasks!LogLevel

\* How the results grow when a task of base/config returns r.
LEMMA ConfigReturn ==
  ASSUME NEW t, NEW r, ConfigTasks!Return(t, r)
  PROVE  /\ process' = process
         /\ DOMAIN results' = DOMAIN results \cup {t}
         /\ results'[t] = r
         /\ \A u \in DOMAIN results : u # t => results'[u] = results[u]
BY DEF ConfigTasks!Return

\* What the lemmas on sequences say of the operators ConfigFiles uses: Among,
LEMMA ConfigAmong ==
  ASSUME NEW E, NEW s \in Seq(E), NEW S
  PROVE  /\ ConfigTasks!Among(s, S) = Among(s, S)
         /\ ConfigTasks!Among(s, S) \in Seq(E)
         /\ ConfigTasks!Range(ConfigTasks!Among(s, S)) = ConfigTasks!Range(s) \cap S
<1>1. ConfigTasks!Among(s, S) = Among(s, S) BY DEF ConfigTasks!Among, Among
<1>2. \A f : ConfigTasks!Range(f) = Range(f) BY DEF ConfigTasks!Range, Range
<1>. QED BY <1>1, <1>2, AmongRange

\* SetToSeq, each path once,
LEMMA ConfigSetToSeq ==
  ASSUME NEW S \in SUBSET ConfigPath
  PROVE  LET q == ConfigTasks!SetToSeq(S)
         IN  q \in Seq(S) /\ ConfigTasks!Range(q) = S /\ Once(q, {})
<1>1. \A f : ConfigTasks!IsInjective(f) <=> IsInjective(f)
  BY DEF ConfigTasks!IsInjective, IsInjective
<1>2. ConfigTasks!Cardinality(S) = Cardinality(S)
  BY DEF ConfigTasks!Cardinality, Cardinality
<1>3. ConfigTasks!SetToSeq(S) = SetToSeq(S)
  BY <1>1, <1>2 DEF ConfigTasks!SetToSeq, SetToSeq
<1>4. IsFiniteSet(S)
  <2>1. ConfigTasks!IsFiniteSet(ConfigPath)
    BY BaseTasksValues DEF BaseTasksAssumption, ConfigTasks!ConfigFilesAssumption
  <2>2. IsFiniteSet(ConfigPath) BY <2>1 DEF ConfigTasks!IsFiniteSet, IsFiniteSet
  <2>. QED BY <2>2, FS_Subset
<1>5. \A f : ConfigTasks!Range(f) = Range(f) BY DEF ConfigTasks!Range, Range
<1>. QED BY <1>3, <1>4, <1>5, SetToSeqElements DEF Once

\* and FlattenSeq.
LEMMA ConfigFlatten ==
  ASSUME NEW E, NEW ss \in Seq(Seq(E))
  PROVE  /\ ConfigTasks!FlattenSeq(ss) \in Seq(E)
         /\ ConfigTasks!Range(ConfigTasks!FlattenSeq(ss)) =
              UNION {ConfigTasks!Range(ss[i]) : i \in 1..Len(ss)}
<1>1. ConfigTasks!FlattenSeq(ss) = FlattenSeq(ss) BY DEF ConfigTasks!FlattenSeq, FlattenSeq
<1>2. \A f : ConfigTasks!Range(f) = Range(f) BY DEF ConfigTasks!Range, Range
<1>. QED BY <1>1, <1>2, FlattenSeqRange
-----------------------------------------------------------------------------
(* What Collect finds *)

\* The host and its disk are among those of the constants, every result has a status.
ConfigTyped ==
  /\ host \in ConfigHost /\ disk \in ConfigTasks!DiskType
  /\ refused \subseteq ConfigPath /\ named \subseteq ConfigPath
  /\ process = "running"
  /\ \A t \in DOMAIN results : results[t].status \in ConfigTasks!Status

\* What the values of the constants say of the host.
LEMMA ConfigHostTyped ==
  ASSUME ConfigTyped
  PROVE  /\ host.standard \subseteq ConfigPath /\ host.secure \subseteq ConfigPath
         /\ host.inside \subseteq ConfigPath
         /\ host.agentPath \in ConfigPath \cup {None} /\ host.override \in ConfigPath \cup {None}
         /\ host.sysProps \in Seq(ConfigPath) /\ host.envVars \in Seq(ConfigPath)
         /\ host.appProps \in Seq(ConfigName \cup {None, Blank})
         /\ None \notin ConfigPath
         /\ \A p \in ConfigPath : disk[p].state \in {"missing", "dir", "locked", "file"}
         /\ \A p \in ConfigPath : disk[p].content \in ConfigTasks!ContentType
<1>1. host \in ConfigTasks!HostType /\ None \notin ConfigPath
  BY BaseTasksValues DEF ConfigTyped, BaseTasksAssumption, ConfigTasks!ConfigFilesAssumption
<1>2. \A p \in ConfigPath : disk[p] \in
        [state : {"missing", "dir", "locked", "file"}, content : ConfigTasks!ContentType]
  BY DEF ConfigTyped, ConfigTasks!DiskType
<1>3. \A p \in ConfigPath : /\ disk[p].state \in {"missing", "dir", "locked", "file"}
                            /\ disk[p].content \in ConfigTasks!ContentType
  <2>. HIDE DEF ConfigTasks!ContentType
  <2>. QED BY <1>2
<1>. QED BY <1>1, <1>3 DEF ConfigTasks!HostType

\* What a search has come to: the files found, the paths that lead to none, and
\* whether something could not be read.
Found == [found : Seq(ConfigPath), invalid : SUBSET ConfigPath, errors : BOOLEAN]

\* The files that may be taken twice: the one an app.config names, and those with
\* names of both kinds.
TwiceAllowed == {host.agentPath} \cup (host.standard \cap host.secure)

\* After the secure files seen: what is found comes from a standard place, from an
\* app.config, or from the user who did not refuse it.
Secured(acc, seen) ==
  /\ acc \in Found /\ Once(acc.found, TwiceAllowed)
  /\ ConfigTasks!Range(acc.found) \subseteq host.standard \cup {host.agentPath} \cup (seen \ refused')

\* AddSecureConfig takes up one more of the secure files.
LEMMA SecureStep ==
  ASSUME ConfigTyped, NEW acc, NEW seen \in SUBSET host.secure, Secured(acc, seen),
         NEW p \in host.secure, p \notin seen
  PROVE  Secured(ConfigTasks!AddSecureConfig(acc, p), seen \cup {p})
<1>r. PICK r : r = ConfigTasks!AddSecureConfig(acc, p) OBVIOUS
<1>. SUFFICES Secured(r, seen \cup {p}) BY <1>r
<1>0. \A f : ConfigTasks!Range(f) = Range(f) BY DEF ConfigTasks!Range, Range
<1>1. p \in ConfigPath /\ acc \in Found /\ acc.found \in Seq(ConfigPath)
  BY ConfigHostTyped DEF Secured, Found
<1>2. PICK s, e : /\ \/ s = acc.found
                     \/ host.agentPath # None /\ s = Append(acc.found, host.agentPath)
                  /\ e \in BOOLEAN
                  /\ r = [found |-> IF p \in refused' THEN s ELSE Append(s, p),
                          invalid |-> acc.invalid, errors |-> e]
  <2>. DEFINE net == IF ConfigTasks!IsFileWithNETAgentConfigPath(p)
                     THEN ConfigTasks!GetNETAgentConfigPathFromFile(p) ELSE "no path"
  <2>1. net = "path" => host.agentPath # None
    BY DEF ConfigTasks!GetNETAgentConfigPathFromFile
  <2>. HIDE DEF net
  <2>. DEFINE named0 == IF net = "path" THEN [acc EXCEPT !.found = Append(@, host.agentPath)]
                        ELSE [acc EXCEPT !.errors = @ \/ net = "error"]
  <2>2. r = IF p \in refused' THEN named0 ELSE [named0 EXCEPT !.found = Append(@, p)]
    BY <1>r DEF ConfigTasks!AddSecureConfig, net
  <2>3. CASE net = "path"
    <3>1. named0 = [found |-> Append(acc.found, host.agentPath), invalid |-> acc.invalid,
                    errors |-> acc.errors]
      BY <1>1, <2>3 DEF Found
    <3>2. acc.errors \in BOOLEAN BY <1>1 DEF Found
    <3>. HIDE DEF named0
    <3>. QED BY <2>1, <2>2, <2>3, <3>1, <3>2
  <2>4. CASE net # "path"
    <3>1. named0 = [found |-> acc.found, invalid |-> acc.invalid,
                    errors |-> acc.errors \/ net = "error"]
      BY <1>1, <2>4 DEF Found
    <3>2. (acc.errors \/ net = "error") \in BOOLEAN OBVIOUS
    <3>. HIDE DEF named0
    <3>. QED BY <2>2, <3>1, <3>2
  <2>. QED BY <2>3, <2>4
<1>3. /\ s \in Seq(ConfigPath) /\ Once(s, TwiceAllowed)
      /\ Range(s) \subseteq host.standard \cup {host.agentPath} \cup (seen \ refused')
  <2>1. CASE s = acc.found BY <1>0, <1>1, <2>1 DEF Secured
  <2>2. CASE host.agentPath # None /\ s = Append(acc.found, host.agentPath)
    <3>1. host.agentPath \in ConfigPath BY <2>2, ConfigHostTyped
    <3>2. s \in Seq(ConfigPath) /\ Range(s) = Range(acc.found) \cup {host.agentPath}
      BY <1>1, <2>2, <3>1, AppendRange
    <3>3. host.agentPath \in TwiceAllowed BY DEF TwiceAllowed
    <3>4. Once(s, TwiceAllowed) BY <1>1, <2>2, <3>1, <3>3, AppendOnce DEF Secured
    <3>. QED BY <1>0, <3>2, <3>4 DEF Secured
  <2>. QED BY <1>2, <2>1, <2>2
<1>4. acc.invalid \in SUBSET ConfigPath BY <1>1 DEF Found
<1>5. r.found = (IF p \in refused' THEN s ELSE Append(s, p)) /\ r.invalid = acc.invalid BY <1>2
<1>6. CASE p \in refused'
  <2>1. r.found = s BY <1>5, <1>6
  <2>2. r \in Found BY <1>2, <1>3, <1>4, <1>6 DEF Found
  <2>. QED BY <1>0, <1>3, <2>1, <2>2 DEF Secured
<1>7. CASE p \notin refused'
  <2>1. r.found = Append(s, p) BY <1>5, <1>7
  <2>2. Append(s, p) \in Seq(ConfigPath) /\ Range(Append(s, p)) = Range(s) \cup {p}
    BY <1>1, <1>3, AppendRange
  <2>3. r \in Found BY <1>2, <1>4, <1>7, <2>2 DEF Found
  <2>4. p \in Range(s) => p \in TwiceAllowed BY <1>3 DEF TwiceAllowed
  <2>5. Once(Append(s, p), TwiceAllowed) BY <1>1, <1>3, <2>4, AppendOnce
  <2>6. Range(Append(s, p)) \subseteq
          host.standard \cup {host.agentPath} \cup ((seen \cup {p}) \ refused')
    BY <1>3, <1>7, <2>2
  <2>. QED BY <1>0, <2>1, <2>3, <2>5, <2>6 DEF Secured
<1>. QED BY <1>6, <1>7

\* What becomes of a path the host names: it is known, or said to be invalid; of
\* a directory the files inside are known.
Settled(q, acc) ==
  CASE disk[q].state = "dir" -> host.inside \subseteq ConfigTasks!Range(acc.found)
    [] disk[q].state = "missing" -> q \in acc.invalid
    [] OTHER -> q \in ConfigTasks!Range(acc.found) \cup acc.invalid

\* After the paths given: what is found comes from where it may, and each path
\* the host names is settled.
Collecting(acc, given) ==
  /\ acc \in Found /\ Once(acc.found, TwiceAllowed)
  /\ ConfigTasks!Range(acc.found) \subseteq
       host.standard \cup {host.agentPath} \cup (host.secure \ refused') \cup given \cup host.inside
  /\ \A q \in given : Settled(q, acc)

\* AppendToInvalidOrFoundConfigs settles one more path.
LEMMA GivenStep ==
  ASSUME ConfigTyped, NEW acc, NEW given \in SUBSET ConfigPath, Collecting(acc, given),
         NEW p \in ConfigPath
  PROVE  Collecting(ConfigTasks!AppendToInvalidOrFoundConfigs(acc, p), given \cup {p})
<1>r. PICK r : r = ConfigTasks!AppendToInvalidOrFoundConfigs(acc, p) OBVIOUS
<1>. SUFFICES Collecting(r, given \cup {p}) BY <1>r
<1>0. \A f : ConfigTasks!Range(f) = Range(f) BY DEF ConfigTasks!Range, Range
<1>1. /\ acc \in Found /\ acc.found \in Seq(ConfigPath) /\ acc.invalid \in SUBSET ConfigPath
      /\ acc.errors \in BOOLEAN
  BY DEF Collecting, Found
<1>2. disk[p].state \in {"missing", "dir", "locked", "file"} BY ConfigHostTyped
<1>3. ASSUME NEW s \in Seq(ConfigPath), NEW v \in SUBSET ConfigPath,
             r = [found |-> s, invalid |-> v, errors |-> acc.errors],
             Range(acc.found) \subseteq Range(s), acc.invalid \subseteq v,
             Range(s) \subseteq Range(acc.found) \cup {p} \cup host.inside,
             Once(s, TwiceAllowed), Settled(p, [found |-> s, invalid |-> v])
      PROVE  Collecting(r, given \cup {p})
  <2>1. r \in Found /\ r.found = s /\ r.invalid = v BY <1>1, <1>3 DEF Found
  <2>2. Settled(p, r) BY <1>3, <2>1 DEF Settled
  <2>3. ASSUME NEW q \in given PROVE Settled(q, r)
    <3>1. Settled(q, acc) BY DEF Collecting
    <3>. QED BY <1>0, <1>3, <2>1, <3>1 DEF Settled
  <2>4. Range(r.found) \subseteq host.standard \cup {host.agentPath} \cup (host.secure \ refused')
                                   \cup (given \cup {p}) \cup host.inside
    BY <1>0, <1>3, <2>1 DEF Collecting
  <2>. QED BY <1>0, <1>3, <2>1, <2>2, <2>3, <2>4 DEF Collecting
<1>4. Once(acc.found, TwiceAllowed) BY DEF Collecting
<1>5. CASE disk[p].state = "missing"
  <2>1. r = [found |-> acc.found, invalid |-> acc.invalid \cup {p}, errors |-> acc.errors]
    BY <1>r, <1>1, <1>5 DEF ConfigTasks!AppendToInvalidOrFoundConfigs, Found
  <2>2. Settled(p, [found |-> acc.found, invalid |-> acc.invalid \cup {p}])
    BY <1>5 DEF Settled
  <2>. QED BY <1>1, <1>3, <1>4, <2>1, <2>2
<1>6. CASE disk[p].state = "dir"
  <2>. DEFINE new == host.inside \ ConfigTasks!Range(acc.found)
              q == ConfigTasks!SetToSeq(new)
              s == acc.found \o q
  <2>1. r = [found |-> s, invalid |-> acc.invalid, errors |-> acc.errors]
    <3>. HIDE DEF q
    <3>. QED BY <1>r, <1>1, <1>6 DEF ConfigTasks!AppendToInvalidOrFoundConfigs, Found, q
  <2>2. new \in SUBSET ConfigPath BY ConfigHostTyped
  <2>3. q \in Seq(new) /\ Range(q) = new /\ Once(q, {}) BY <1>0, <2>2, ConfigSetToSeq
  <2>4. q \in Seq(ConfigPath)
    <3>. HIDE DEF new, q
    <3>. QED BY <2>2, <2>3
  <2>. HIDE DEF q
  <2>5. s \in Seq(ConfigPath) /\ Range(s) = Range(acc.found) \cup Range(q)
    BY <1>1, <2>4, ConcatRange
  <2>6. Once(q, TwiceAllowed) BY <2>3 DEF Once
  <2>7. Range(acc.found) \cap Range(q) = {} BY <1>0, <2>3
  <2>8. Once(s, TwiceAllowed) BY <1>1, <1>4, <2>4, <2>6, <2>7, ConcatOnce
  <2>. HIDE DEF s
  <2>9. Settled(p, [found |-> s, invalid |-> acc.invalid])
    BY <1>0, <1>6, <2>3, <2>5 DEF Settled
  <2>. QED BY <1>0, <1>1, <1>3, <2>1, <2>3, <2>5, <2>8, <2>9
<1>7. CASE disk[p].state \in {"locked", "file"} /\ p \in Range(acc.found)
  <2>1. r = acc
    BY <1>r, <1>0, <1>7 DEF ConfigTasks!AppendToInvalidOrFoundConfigs
  <2>2. acc = [found |-> acc.found, invalid |-> acc.invalid, errors |-> acc.errors]
    BY <1>1 DEF Found
  <2>3. Settled(p, [found |-> acc.found, invalid |-> acc.invalid])
    BY <1>0, <1>7 DEF Settled
  <2>. QED BY <1>1, <1>3, <1>4, <2>1, <2>2, <2>3
<1>8. CASE disk[p].state = "locked" /\ p \notin Range(acc.found)
  <2>1. r = [found |-> acc.found, invalid |-> acc.invalid \cup {p}, errors |-> acc.errors]
    BY <1>r, <1>0, <1>1, <1>8 DEF ConfigTasks!AppendToInvalidOrFoundConfigs, Found
  <2>2. Settled(p, [found |-> acc.found, invalid |-> acc.invalid \cup {p}])
    BY <1>8 DEF Settled
  <2>. QED BY <1>1, <1>3, <1>4, <2>1, <2>2
<1>9. CASE disk[p].state = "file" /\ p \notin Range(acc.found)
  <2>1. r = [found |-> Append(acc.found, p), invalid |-> acc.invalid, errors |-> acc.errors]
    BY <1>r, <1>0, <1>1, <1>9 DEF ConfigTasks!AppendToInvalidOrFoundConfigs, Found
  <2>2. Append(acc.found, p) \in Seq(ConfigPath) /\ Range(Append(acc.found, p)) = Range(acc.found) \cup {p}
    BY <1>1, AppendRange
  <2>3. Once(Append(acc.found, p), TwiceAllowed) BY <1>1, <1>4, <1>9, AppendOnce
  <2>4. Settled(p, [found |-> Append(acc.found, p), invalid |-> acc.invalid])
    BY <1>0, <1>9, <2>2 DEF Settled
  <2>. QED BY <1>1, <1>3, <2>1, <2>2, <2>3, <2>4
<1>. QED BY <1>2, <1>5, <1>6, <1>7, <1>8, <1>9
\* The secure files one after the other.
PlacesFound(f) ==
  f = [i \in 0..Len(ConfigTasks!Secure) |->
         IF i = 0 THEN ConfigTasks!FoundInPlaces
         ELSE ConfigTasks!AddSecureConfig(f[i - 1], ConfigTasks!Secure[i])]

\* The search of the places has a result, in which every secure file was looked at.
LEMMA PlacesSecured ==
  ASSUME ConfigTyped
  PROVE  /\ \E f : PlacesFound(f)
         /\ \A f : PlacesFound(f) => Secured(f[Len(ConfigTasks!Secure)], host.secure)
<1>. DEFINE q == ConfigTasks!Secure
            N == Len(q)
            Seen(n) == {q[j] : j \in 1..n}
            Step(i, d) == ConfigTasks!AddSecureConfig(d, q[i])
            base == ConfigTasks!FoundInPlaces
            V == [i \in 0..N |-> {acc \in Found : Secured(acc, Seen(i))}]
            G == [i \in 1..N |-> [d \in Found |-> Step(i, d)]]
<1>0. \A f : ConfigTasks!Range(f) = Range(f) BY DEF ConfigTasks!Range, Range
<1>1. host.secure \in SUBSET ConfigPath /\ host.standard \in SUBSET ConfigPath
  BY ConfigHostTyped
<1>2. q \in Seq(host.secure) /\ Range(q) = host.secure /\ Once(q, {})
  BY <1>0, <1>1, ConfigSetToSeq DEF ConfigTasks!Secure
<1>. HIDE DEF q
<1>3. N \in Nat /\ DOMAIN q = 1..N BY <1>2
<1>4. \A i \in 1..N : q[i] \in host.secure /\ q[i] \notin Seen(i - 1) /\ Seen(i) = Seen(i - 1) \cup {q[i]}
  <2>1. ASSUME NEW i \in 1..N PROVE q[i] \in host.secure BY <1>2
  <2>2. ASSUME NEW i \in 1..N, NEW j \in 1..(i - 1) PROVE q[i] # q[j]
    <3>1. j \in 1..N /\ i # j BY <1>3
    <3>2. \A a, b \in 1..Len(q) : q[a] = q[b] /\ a # b => q[a] \in {} BY <1>2 DEF Once
    <3>. QED BY <3>1, <3>2
  <2>3. ASSUME NEW i \in 1..N PROVE Seen(i) = Seen(i - 1) \cup {q[i]}
    <3>1. \A j : j \in 1..i <=> j \in 1..(i - 1) \/ j = i BY <1>3
    <3>. QED BY <3>1
  <2>. QED BY <2>1, <2>2, <2>3
<1>5. Seen(N) = host.secure BY <1>2, <1>3 DEF Range
<1>6. \A n \in 0..N : Seen(n) \subseteq host.secure
  BY <1>2, <1>3
<1>7. base \in Found /\ Secured(base, Seen(0))
  <2>. DEFINE st == ConfigTasks!SetToSeq(host.standard)
  <2>1. st \in Seq(host.standard) /\ Range(st) = host.standard /\ Once(st, {})
    BY <1>0, <1>1, ConfigSetToSeq
  <2>2. base = [found |-> st, invalid |-> {}, errors |-> FALSE]
    BY DEF ConfigTasks!FoundInPlaces
  <2>. HIDE DEF st, base
  <2>3. st \in Seq(ConfigPath) BY <1>1, <2>1
  <2>4. base \in Found /\ base.found = st BY <2>2, <2>3 DEF Found
  <2>5. Once(st, TwiceAllowed) BY <2>1 DEF Once
  <2>. QED BY <1>0, <2>1, <2>4, <2>5 DEF Secured
<1>. HIDE DEF base, Seen
<1>8. ASSUME NEW i \in 1..N, NEW d \in Found, Secured(d, Seen(i - 1))
      PROVE  Step(i, d) \in Found /\ Secured(Step(i, d), Seen(i))
  <2>1. i - 1 \in 0..N BY <1>3
  <2>2. Secured(Step(i, d), Seen(i - 1) \cup {q[i]})
    BY <1>4, <1>6, <1>8, <2>1, SecureStep
  <2>. QED BY <1>4, <2>2 DEF Secured
<1>. HIDE DEF Step
<1>9. PICK f : Iterates(f, N, base, G) /\ \A i \in 0..N : f[i] \in V[i]
  <2>1. Stages(N, V, base, G)
    <3>1. base \in V[0] BY <1>3, <1>7
    <3>2. ASSUME NEW i \in 1..N, NEW d \in V[i - 1] PROVE G[i][d] \in V[i]
      <4>1. i \in 0..N /\ i - 1 \in 0..N BY <1>3
      <4>2. d \in Found /\ Secured(d, Seen(i - 1)) BY <4>1
      <4>3. G[i][d] = Step(i, d) BY <4>2
      <4>. QED BY <1>8, <4>1, <4>2, <4>3
    <3>. HIDE DEF G, V, N
    <3>. QED BY <1>3, <3>1, <3>2 DEF Stages
  <2>. HIDE DEF G, V, N
  <2>. QED BY <2>1, StagedRecursion
<1>10. \A i \in 0..N : f[i] \in Found BY <1>9
<1>11. f = [i \in 0..N |-> IF i = 0 THEN base ELSE Step(i, f[i - 1])]
  <2>1. f = [i \in 0..N |-> IF i = 0 THEN base ELSE G[i][f[i - 1]]] BY <1>9 DEF Iterates
  <2>2. ASSUME NEW i \in 0..N, i # 0 PROVE G[i][f[i - 1]] = Step(i, f[i - 1])
    <3>1. i \in 1..N /\ i - 1 \in 0..N BY <1>3, <2>2
    <3>2. f[i - 1] \in Found BY <1>10, <3>1
    <3>. QED BY <3>1, <3>2
  <2>. HIDE DEF G, N
  <2>. QED BY <2>1, <2>2
<1>12. PlacesFound(f) BY <1>11 DEF PlacesFound, q, base, Step
<1>13. ASSUME NEW k, PlacesFound(k) PROVE Secured(k[N], host.secure)
  <2>1. k = [i \in 0..N |-> IF i = 0 THEN base ELSE Step(i, k[i - 1])]
    BY <1>13 DEF PlacesFound, q, base, Step
  <2>2. \A i \in 0..N : k[i] = IF i = 0 THEN base ELSE Step(i, k[i - 1])
    <3>. HIDE DEF N
    <3>. QED BY <2>1
  <2>. DEFINE T == {n \in 0..N : k[n] \in Found /\ Secured(k[n], Seen(n))}
  <2>3. 0 \in T BY <1>3, <1>7, <2>2
  <2>4. ASSUME NEW n \in 1..N, n - 1 \in T PROVE n \in T
    <3>1. n \in 0..N /\ n # 0 BY <1>3
    <3>2. k[n - 1] \in Found /\ Secured(k[n - 1], Seen(n - 1)) BY <2>4
    <3>3. k[n] = Step(n, k[n - 1]) BY <2>2, <3>1
    <3>. QED BY <1>8, <3>1, <3>2, <3>3
  <2>5. \A n \in 0..N : n \in T
    <3>. HIDE DEF T, N
    <3>. QED BY <1>3, <2>3, <2>4, UpTo
  <2>. QED BY <1>3, <1>5, <2>5
<1>. QED BY <1>12, <1>13 DEF q

\* Then the paths the host names, one after the other.
AllFound(places, f) ==
  f = [i \in 0..Len(ConfigTasks!Given) |->
         IF i = 0 THEN places[Len(ConfigTasks!Secure)]
         ELSE ConfigTasks!AppendToInvalidOrFoundConfigs(f[i - 1], ConfigTasks!Given[i])]

\* So has the whole search, in which every path the host names was looked at.
LEMMA AllCollected ==
  ASSUME ConfigTyped, NEW places, PlacesFound(places)
  PROVE  /\ \E f : AllFound(places, f)
         /\ \A f : AllFound(places, f) => Collecting(f[Len(ConfigTasks!Given)], ConfigTasks!NamedByHost)
<1>. DEFINE q == ConfigTasks!Given
            N == Len(q)
            Seen(n) == {q[j] : j \in 1..n}
            Step(i, d) == ConfigTasks!AppendToInvalidOrFoundConfigs(d, q[i])
            base == places[Len(ConfigTasks!Secure)]
            V == [i \in 0..N |-> {acc \in Found : Collecting(acc, Seen(i))}]
            G == [i \in 1..N |-> [d \in Found |-> Step(i, d)]]
<1>0. \A f : ConfigTasks!Range(f) = Range(f) BY DEF ConfigTasks!Range, Range
<1>2. q \in Seq(ConfigPath) /\ Range(q) = ConfigTasks!NamedByHost
  BY <1>0, ConfigHostTyped, ConcatRange DEF ConfigTasks!Given, ConfigTasks!NamedByHost
<1>. HIDE DEF q
<1>3. N \in Nat /\ DOMAIN q = 1..N BY <1>2
<1>4. \A i \in 1..N : q[i] \in ConfigPath /\ Seen(i) = Seen(i - 1) \cup {q[i]}
  <2>1. ASSUME NEW i \in 1..N PROVE q[i] \in ConfigPath BY <1>2
  <2>3. ASSUME NEW i \in 1..N PROVE Seen(i) = Seen(i - 1) \cup {q[i]}
    <3>1. \A j : j \in 1..i <=> j \in 1..(i - 1) \/ j = i BY <1>3
    <3>. QED BY <3>1
  <2>. QED BY <2>1, <2>3
<1>5. Seen(N) = ConfigTasks!NamedByHost BY <1>2, <1>3 DEF Range
<1>6. \A n \in 0..N : Seen(n) \in SUBSET ConfigPath
  BY <1>2, <1>3
<1>7. base \in Found /\ Collecting(base, Seen(0))
  <2>1. Secured(base, host.secure) BY PlacesSecured
  <2>2. Seen(0) = {} OBVIOUS
  <2>. HIDE DEF base
  <2>. QED BY <2>1, <2>2 DEF Secured, Collecting
<1>. HIDE DEF base, Seen
<1>8. ASSUME NEW i \in 1..N, NEW d \in Found, Collecting(d, Seen(i - 1))
      PROVE  Step(i, d) \in Found /\ Collecting(Step(i, d), Seen(i))
  <2>1. i - 1 \in 0..N BY <1>3
  <2>2. Collecting(Step(i, d), Seen(i - 1) \cup {q[i]})
    BY <1>4, <1>6, <1>8, <2>1, GivenStep
  <2>. QED BY <1>4, <2>2 DEF Collecting
<1>. HIDE DEF Step
<1>9. PICK f : Iterates(f, N, base, G) /\ \A i \in 0..N : f[i] \in V[i]
  <2>1. Stages(N, V, base, G)
    <3>1. base \in V[0] BY <1>3, <1>7
    <3>2. ASSUME NEW i \in 1..N, NEW d \in V[i - 1] PROVE G[i][d] \in V[i]
      <4>1. i \in 0..N /\ i - 1 \in 0..N BY <1>3
      <4>2. d \in Found /\ Collecting(d, Seen(i - 1)) BY <4>1
      <4>3. G[i][d] = Step(i, d) BY <4>2
      <4>. QED BY <1>8, <4>1, <4>2, <4>3
    <3>. HIDE DEF G, V, N
    <3>. QED BY <1>3, <3>1, <3>2 DEF Stages
  <2>. HIDE DEF G, V, N
  <2>. QED BY <2>1, StagedRecursion
<1>10. \A i \in 0..N : f[i] \in Found BY <1>9
<1>11. f = [i \in 0..N |-> IF i = 0 THEN base ELSE Step(i, f[i - 1])]
  <2>1. f = [i \in 0..N |-> IF i = 0 THEN base ELSE G[i][f[i - 1]]] BY <1>9 DEF Iterates
  <2>2. ASSUME NEW i \in 0..N, i # 0 PROVE G[i][f[i - 1]] = Step(i, f[i - 1])
    <3>1. i \in 1..N /\ i - 1 \in 0..N BY <1>3, <2>2
    <3>2. f[i - 1] \in Found BY <1>10, <3>1
    <3>. QED BY <3>1, <3>2
  <2>. HIDE DEF G, N
  <2>. QED BY <2>1, <2>2
<1>12. AllFound(places, f) BY <1>11 DEF AllFound, q, base, Step
<1>13. ASSUME NEW k, AllFound(places, k) PROVE Collecting(k[N], ConfigTasks!NamedByHost)
  <2>1. k = [i \in 0..N |-> IF i = 0 THEN base ELSE Step(i, k[i - 1])]
    BY <1>13 DEF AllFound, q, base, Step
  <2>2. \A i \in 0..N : k[i] = IF i = 0 THEN base ELSE Step(i, k[i - 1])
    <3>. HIDE DEF N
    <3>. QED BY <2>1
  <2>. DEFINE T == {n \in 0..N : k[n] \in Found /\ Collecting(k[n], Seen(n))}
  <2>3. 0 \in T BY <1>3, <1>7, <2>2
  <2>4. ASSUME NEW n \in 1..N, n - 1 \in T PROVE n \in T
    <3>1. n \in 0..N /\ n # 0 BY <1>3
    <3>2. k[n - 1] \in Found /\ Collecting(k[n - 1], Seen(n - 1)) BY <2>4
    <3>3. k[n] = Step(n, k[n - 1]) BY <2>2, <3>1
    <3>. QED BY <1>8, <3>1, <3>2, <3>3
  <2>5. \A n \in 0..N : n \in T
    <3>. HIDE DEF T, N
    <3>. QED BY <1>3, <2>3, <2>4, UpTo
  <2>. QED BY <1>3, <1>5, <2>5
<1>. QED BY <1>12, <1>13 DEF q

\* What Collect finds in the end.
LEMMA FoundConfigsCollected ==
  ASSUME ConfigTyped
  PROVE  Collecting(ConfigTasks!FoundConfigs, ConfigTasks!NamedByHost)
<1>1. PICK places : places = CHOOSE f : PlacesFound(f) OBVIOUS
<1>2. PlacesFound(places)
  <2>1. \E f : PlacesFound(f) BY PlacesSecured
  <2>. QED BY <1>1, <2>1
<1>3. PICK all : all = CHOOSE f : AllFound(places, f) OBVIOUS
<1>4. AllFound(places, all)
  <2>1. \E f : AllFound(places, f) BY <1>2, AllCollected
  <2>. QED BY <1>3, <2>1
<1>5. ConfigTasks!FoundConfigs = all[Len(ConfigTasks!Given)]
  BY <1>1, <1>3 DEF ConfigTasks!FoundConfigs, PlacesFound, AllFound
<1>. QED BY <1>2, <1>4, <1>5, AllCollected
-----------------------------------------------------------------------------
(* What the tasks of base/config hand on *)

\* Collect succeeds with paths, and only then hands any on.
CollectHandsOn ==
  "Base/Config/Collect" \in DOMAIN results =>
    LET r == results["Base/Config/Collect"]
    IN  /\ r.status = "Success" <=> "payload" \in DOMAIN r
        /\ r.status = "Success" => r.payload \in Seq(ConfigPath)

\* What Validate reads of the files as they are now.
ReadFiles == {ConfigTasks!ProcessConfig(p) : p \in ConfigPath}

\* Validate hands on what it read of the files as they are from then on.
ValidateHandsOn ==
  "Base/Config/Validate" \in DOMAIN results =>
    LET r == results["Base/Config/Validate"]
    IN  /\ r.status \in {"None", "Success", "Warning", "Failure"}
        /\ r.status \in {"Success", "Warning"} <=> "payload" \in DOMAIN r
        /\ r.status \notin {"None", "Failure"} => r.payload \in Seq(ReadFiles)

\* AppName runs after Validate, and neither it nor ValidateHSM fails to read its payload.
NamesHandedOn ==
  /\ "Base/Config/AppName" \in DOMAIN results =>
       /\ "Base/Config/Validate" \in DOMAIN results
       /\ results["Base/Config/AppName"].status # "Error"
  /\ "Base/Config/ValidateHSM" \in DOMAIN results =>
       results["Base/Config/ValidateHSM"].status # "Error"

\* The inductive invariant of base/config.
ConfigInv ==
  /\ ConfigTyped
  /\ CollectHandsOn /\ ValidateHandsOn /\ NamesHandedOn
  /\ ConfigTasks!EveryPathAccounted
  /\ ConfigTasks!TakenOnce
  /\ ConfigTasks!RefusedOnlyByName
  /\ ConfigTasks!NamesByPrecedence

\* What Collect found is not touched by a task that comes later.
LEMMA CollectedKept ==
  ASSUME ConfigInv, UNCHANGED <<host, disk, refused, named>>,
         "Base/Config/Collect" \in DOMAIN results' <=> "Base/Config/Collect" \in DOMAIN results,
         "Base/Config/Collect" \in DOMAIN results =>
           results'["Base/Config/Collect"] = results["Base/Config/Collect"]
  PROVE  /\ CollectHandsOn'
         /\ ConfigTasks!EveryPathAccounted'
         /\ ConfigTasks!TakenOnce'
         /\ ConfigTasks!RefusedOnlyByName'
<1>0. ConfigNames BY ConfigNamesHold
<1>1. CollectHandsOn' BY DEF ConfigInv, CollectHandsOn
<1>2. ConfigTasks!TakenOnce'
  BY <1>0 DEF ConfigInv, ConfigNames, ConfigTasks!TakenOnce, ConfigTasks!Holds
<1>3. /\ ConfigTasks!Searched' <=> ConfigTasks!Searched
      /\ ConfigTasks!NamedByHost' = ConfigTasks!NamedByHost
      /\ ConfigTasks!Searched => /\ ConfigTasks!Taken' = ConfigTasks!Taken
                                 /\ results'[ConfigTasks!Collect] = results[ConfigTasks!Collect]
  BY <1>0 DEF ConfigNames, ConfigTasks!Searched, ConfigTasks!NamedByHost, ConfigTasks!Taken,
              ConfigTasks!Upstream
<1>4. ConfigTasks!EveryPathAccounted'
  BY <1>3 DEF ConfigInv, ConfigTasks!EveryPathAccounted, ConfigTasks!Holds
<1>5. ConfigTasks!RefusedOnlyByName'
  BY <1>3 DEF ConfigInv, ConfigTasks!RefusedOnlyByName, ConfigTasks!Holds
<1>. QED BY <1>1, <1>2, <1>4, <1>5

\* With -c only that file is handed on.
LEMMA OverrideStep ==
  ASSUME ConfigInv, ConfigTasks!BaseConfigCollect, ConfigTasks!CollectOverride
  PROVE  ConfigInv'
<1>. DEFINE t == "Base/Config/Collect"
<1>0. ConfigNames BY ConfigNamesHold
<1>1. t \notin DOMAIN results /\ UNCHANGED <<host, disk, refused>>
      /\ host.override \in ConfigPath
  BY <1>0, ConfigHostTyped DEF ConfigNames, ConfigTasks!BaseConfigCollect, ConfigTasks!Ready,
     ConfigTasks!CollectOverride, ConfigInv
<1>2. PICK r : /\ ConfigTasks!Return(t, r) /\ named' \subseteq ConfigPath
               /\ \/ r = ConfigTasks!With("Success", <<host.override>>)
                  \/ r = ConfigTasks!Verdict("Warning")
  BY <1>0, <1>1 DEF ConfigNames, ConfigTasks!CollectOverride, ConfigInv, ConfigTyped
<1>3. /\ process' = process
      /\ DOMAIN results' = DOMAIN results \cup {t}
      /\ results'[t] = r
      /\ \A u \in DOMAIN results : u # t => results'[u] = results[u]
  BY <1>2, ConfigReturn
<1>4. /\ r.status \in {"Success", "Warning"}
      /\ r.status = "Success" <=> "payload" \in DOMAIN r
      /\ r.status = "Success" => r.payload = <<host.override>>
  <2>1. CASE r = ConfigTasks!With("Success", <<host.override>>)
    BY <2>1 DEF ConfigTasks!With
  <2>2. CASE r = ConfigTasks!Verdict("Warning")
    BY <2>2 DEF ConfigTasks!Verdict
  <2>. QED BY <1>2, <2>1, <2>2
<1>5. ConfigTyped'
  BY <1>1, <1>2, <1>3, <1>4 DEF ConfigInv, ConfigTyped, ConfigTasks!Status
<1>6. CollectHandsOn'
  <2>1. <<host.override>> \in Seq(ConfigPath) BY <1>1
  <2>. QED BY <1>3, <1>4, <2>1 DEF CollectHandsOn
<1>7. ValidateHandsOn' /\ NamesHandedOn'
  BY <1>1, <1>3 DEF ConfigInv, ValidateHandsOn, NamesHandedOn, ReadFiles, ConfigTasks!ProcessConfig,
     ConfigTasks!ValidatePath, ConfigTasks!Element, ConfigTasks!NothingParsed
<1>8. ConfigTasks!EveryPathAccounted' /\ ConfigTasks!RefusedOnlyByName'
  <2>1. host.override # None BY DEF ConfigTasks!CollectOverride
  <2>. QED BY <1>1, <2>1 DEF ConfigTasks!EveryPathAccounted, ConfigTasks!RefusedOnlyByName,
         ConfigTasks!Searched
<1>9. ConfigTasks!TakenOnce'
  BY <1>0, <1>3, <1>4 DEF ConfigNames, ConfigTasks!TakenOnce, ConfigTasks!Holds
<1>10. ConfigTasks!NamesByPrecedence'
  BY <1>0, <1>1, <1>3 DEF ConfigInv, ConfigNames, ConfigTasks!NamesByPrecedence, ConfigTasks!Holds, NamesHandedOn
<1>. QED BY <1>5, <1>6, <1>7, <1>8, <1>9, <1>10 DEF ConfigInv

\* The search: what is found and not below node_modules is handed on.
LEMMA SearchStep ==
  ASSUME ConfigInv, ConfigTasks!BaseConfigCollect, ConfigTasks!CollectSearch
  PROVE  ConfigInv'
<1>. DEFINE t == "Base/Config/Collect"
            keep == {p \in ConfigPath : ~ConfigTasks!IsConfigFileInPathToIgnore(p)}
<1>0. ConfigNames BY ConfigNamesHold
<1>1. t \notin DOMAIN results /\ UNCHANGED <<host, disk>> /\ host.override = None
      /\ refused' \subseteq ConfigPath
  BY <1>0, ConfigHostTyped DEF ConfigNames, ConfigTasks!BaseConfigCollect, ConfigTasks!Ready,
     ConfigTasks!CollectSearch, ConfigInv
<1>2. PICK all : all = ConfigTasks!FoundConfigs OBVIOUS
<1>3. Collecting(all, ConfigTasks!NamedByHost)
  BY <1>2, FoundConfigsCollected DEF ConfigInv
<1>4. all.found \in Seq(ConfigPath) /\ all.invalid \subseteq ConfigPath
  BY <1>3 DEF Collecting, Found
<1>5. PICK kept : kept = ConfigTasks!Among(all.found, keep) OBVIOUS
<1>6. /\ kept \in Seq(ConfigPath)
      /\ ConfigTasks!Range(kept) = ConfigTasks!Range(all.found) \cap keep
      /\ Once(kept, TwiceAllowed)
  <2>. HIDE DEF keep
  <2>1. kept = Among(all.found, keep) BY <1>4, <1>5, ConfigAmong
  <2>2. Once(kept, TwiceAllowed) BY <1>3, <1>4, <2>1, AmongOnce DEF Collecting
  <2>. QED BY <1>4, <1>5, <2>2, ConfigAmong
<1>7. PICK r : /\ ConfigTasks!Return(t, r) /\ named' = all.invalid \cup refused'
               /\ \/ all.found # <<>> /\ r = ConfigTasks!With("Success", kept)
                  \/ all.found = <<>> /\ r = ConfigTasks!Verdict("Warning")
                  \/ all.found = <<>> /\ r = ConfigTasks!Verdict("Failure")
  <2>. DEFINE rr == CASE all.found # <<>> -> ConfigTasks!With("Success", kept)
                [] all.found = <<>> /\ (all.invalid # {} \/ all.errors) -> ConfigTasks!Verdict("Warning")
                [] all.found = <<>> /\ all.invalid = {} /\ ~all.errors ->
                     ConfigTasks!Verdict(IF host.noConfigVar THEN "Warning" ELSE "Failure")
  <2>1. ConfigTasks!Return(t, rr) /\ named' = all.invalid \cup refused'
    BY <1>0, <1>2, <1>5 DEF ConfigNames, ConfigTasks!CollectSearch
  <2>2. \/ all.found # <<>> /\ rr = ConfigTasks!With("Success", kept)
        \/ all.found = <<>> /\ rr = ConfigTasks!Verdict("Warning")
        \/ all.found = <<>> /\ rr = ConfigTasks!Verdict("Failure")
    OBVIOUS
  <2>. HIDE DEF rr
  <2>. QED BY <2>1, <2>2
<1>8. /\ process' = process
      /\ DOMAIN results' = DOMAIN results \cup {t}
      /\ results'[t] = r
      /\ \A u \in DOMAIN results : u # t => results'[u] = results[u]
  BY <1>7, ConfigReturn
<1>9. /\ r.status \in {"Success", "Warning", "Failure"}
      /\ r.status = "Success" <=> "payload" \in DOMAIN r
      /\ r.status = "Success" <=> all.found # <<>>
      /\ r.status = "Success" => r.payload = kept
  <2>1. CASE all.found # <<>> /\ r = ConfigTasks!With("Success", kept)
    BY <2>1 DEF ConfigTasks!With
  <2>2. CASE all.found = <<>> /\ r = ConfigTasks!Verdict("Warning")
    BY <2>2 DEF ConfigTasks!Verdict
  <2>3. CASE all.found = <<>> /\ r = ConfigTasks!Verdict("Failure")
    BY <2>3 DEF ConfigTasks!Verdict
  <2>. QED BY <1>7, <2>1, <2>2, <2>3
<1>10. ConfigTyped'
  BY <1>1, <1>4, <1>7, <1>8, <1>9 DEF ConfigInv, ConfigTyped, ConfigTasks!Status
<1>11. CollectHandsOn' BY <1>6, <1>8, <1>9 DEF CollectHandsOn
<1>12. ValidateHandsOn' /\ NamesHandedOn'
  BY <1>1, <1>8 DEF ConfigInv, ValidateHandsOn, NamesHandedOn, ReadFiles, ConfigTasks!ProcessConfig,
     ConfigTasks!ValidatePath, ConfigTasks!Element, ConfigTasks!NothingParsed
<1>13. /\ ConfigTasks!Taken' = ConfigTasks!Range(r.payload)
       /\ ConfigTasks!NamedByHost' = ConfigTasks!NamedByHost
       /\ results'[ConfigTasks!Collect] = r
       /\ ConfigTasks!Holds(r) <=> all.found # <<>>
  BY <1>0, <1>1, <1>8, <1>9 DEF ConfigNames, ConfigTasks!Taken, ConfigTasks!Upstream, ConfigTasks!Holds,
     ConfigTasks!NamedByHost
<1>14. ConfigTasks!NamedByHost \subseteq ConfigPath
  BY ConfigHostTyped DEF ConfigInv, ConfigTasks!NamedByHost, ConfigTasks!Range
<1>15. ASSUME NEW p \in ConfigPath, p \in ConfigTasks!Range(all.found), p \notin ConfigModules
       PROVE  ConfigTasks!Holds(r) /\ p \in ConfigTasks!Taken'
  <2>1. all.found # <<>> BY <1>15 DEF ConfigTasks!Range
  <2>2. p \in keep BY <1>15 DEF ConfigTasks!IsConfigFileInPathToIgnore
  <2>. QED BY <1>6, <1>9, <1>13, <1>15, <2>1, <2>2
<1>16. ConfigTasks!EveryPathAccounted'
  <2>1. ASSUME NEW p \in ConfigTasks!NamedByHost
        PROVE  disk[p].state = "dir" \/ p \in ConfigModules \/ p \in named'
                 \/ (ConfigTasks!Holds(r) /\ p \in ConfigTasks!Taken')
    <3>1. Settled(p, all) BY <1>3 DEF Collecting
    <3>. QED BY <1>7, <1>14, <1>15, <3>1 DEF Settled
  <2>2. ASSUME NEW q \in ConfigTasks!NamedByHost, disk[q].state = "dir", NEW p \in host.inside
        PROVE  p \in ConfigModules \/ (ConfigTasks!Holds(r) /\ p \in ConfigTasks!Taken')
    <3>1. Settled(q, all) BY <1>3 DEF Collecting
    <3>2. p \in ConfigTasks!Range(all.found) BY <2>2, <3>1 DEF Settled
    <3>3. p \in ConfigPath BY ConfigHostTyped DEF ConfigInv
    <3>. QED BY <1>15, <3>2, <3>3
  <2>. QED BY <1>1, <1>13, <2>1, <2>2 DEF ConfigTasks!EveryPathAccounted, ConfigTasks!Holds
<1>17. ConfigTasks!TakenOnce'
  BY <1>0, <1>1, <1>6, <1>8, <1>9 DEF ConfigNames, ConfigTasks!TakenOnce, ConfigTasks!Holds, Once, TwiceAllowed
<1>18. ConfigTasks!RefusedOnlyByName'
  <2>1. ASSUME ConfigTasks!Holds(r), NEW p \in refused', p \in ConfigTasks!Taken'
        PROVE  p \in ConfigTasks!NamedByHost \cup {host.agentPath} \cup host.standard \cup host.inside
    <3>1. p \in ConfigTasks!Range(all.found) BY <1>6, <1>9, <1>13, <2>1
    <3>. QED BY <1>3, <2>1, <3>1 DEF Collecting
  <2>. QED BY <1>1, <1>13, <2>1 DEF ConfigTasks!RefusedOnlyByName, ConfigTasks!Holds
<1>19. ConfigTasks!NamesByPrecedence'
  <2>1. CASE "Base/Config/AppName" \in DOMAIN results
    <3>1. "Base/Config/Validate" \in DOMAIN results BY <2>1 DEF ConfigInv, NamesHandedOn
    <3>2. /\ "Base/Config/AppName" \in DOMAIN results'
          /\ results'["Base/Config/AppName"] = results["Base/Config/AppName"]
          /\ results'["Base/Config/Validate"] = results["Base/Config/Validate"]
      BY <1>8, <2>1, <3>1
    <3>3. ConfigTasks!NamesByPrecedence BY DEF ConfigInv
    <3>. QED BY <1>0, <1>1, <2>1, <3>2, <3>3
           DEF ConfigNames, ConfigTasks!NamesByPrecedence, ConfigTasks!Holds
  <2>2. CASE "Base/Config/AppName" \notin DOMAIN results
    BY <1>0, <1>8, <2>2 DEF ConfigNames, ConfigTasks!NamesByPrecedence
  <2>. QED BY <2>1, <2>2
<1>. QED BY <1>10, <1>11, <1>12, <1>16, <1>17, <1>18, <1>19 DEF ConfigInv
\* Validate reads what is collected, and hands on what it read unless it fails.
LEMMA ValidateStep ==
  ASSUME ConfigInv, ConfigTasks!BaseConfigValidate
  PROVE  ConfigInv'
<1>. DEFINE t == "Base/Config/Validate"
            gathered == ConfigTasks!Upstream("Base/Config/Collect")
            elements == ConfigTasks!Validated(gathered.payload)
            r == CASE gathered.status # "Success" -> ConfigTasks!Verdict("None")
                   [] gathered.status = "Success" /\ ~ConfigTasks!Holds(gathered) -> ConfigTasks!Verdict("Error")
                   [] OTHER -> IF gathered.payload = <<>> THEN ConfigTasks!Verdict("None")
                               ELSE ConfigTasks!ValidationResult(elements)
<1>0. ConfigNames BY ConfigNamesHold
<1>1. /\ t \notin DOMAIN results /\ UNCHANGED <<host, disk, refused, named>>
      /\ "Base/Config/Collect" \in DOMAIN results /\ ConfigTasks!Return(t, r)
  BY <1>0 DEF ConfigNames, ConfigTasks!BaseConfigValidate, ConfigTasks!Ready
<1>2. /\ gathered = results["Base/Config/Collect"]
      /\ gathered.status = "Success" <=> "payload" \in DOMAIN gathered
      /\ gathered.status = "Success" => gathered.payload \in Seq(ConfigPath)
  BY <1>1 DEF ConfigInv, CollectHandsOn, ConfigTasks!Upstream
<1>3. gathered.status = "Success" => elements \in Seq(ReadFiles)
  <2>1. SUFFICES ASSUME gathered.status = "Success" PROVE elements \in Seq(ReadFiles) OBVIOUS
  <2>. DEFINE known == ConfigTasks!Among(gathered.payload,
                         {p \in ConfigPath : ~ConfigTasks!ValidatePath(p) \/ ConfigExtension[p] # "none"})
  <2>2. known \in Seq(ConfigPath) BY <1>2, <2>1, ConfigAmong
  <2>3. elements = [i \in 1..Len(known) |-> ConfigTasks!ProcessConfig(known[i])]
    BY DEF ConfigTasks!Validated
  <2>. HIDE DEF known, elements
  <2>4. Len(known) \in Nat /\ \A i \in 1..Len(known) : known[i] \in ConfigPath BY <2>2
  <2>5. \A i \in 1..Len(known) : ConfigTasks!ProcessConfig(known[i]) \in ReadFiles
    BY <2>4 DEF ReadFiles
  <2>. HIDE DEF ReadFiles
  <2>. QED BY <2>3, <2>4, <2>5
<1>4. /\ r.status \in {"None", "Success", "Warning", "Failure"}
      /\ r.status \in {"Success", "Warning"} <=> "payload" \in DOMAIN r
      /\ r.status \notin {"None", "Failure"} =>
           gathered.status = "Success" /\ r.payload = elements
  <2>. HIDE DEF elements
  <2>1. r \in {ConfigTasks!Verdict("None"), ConfigTasks!ValidationResult(elements)}
        /\ (gathered.status # "Success" => r = ConfigTasks!Verdict("None"))
    <3>. HIDE DEF gathered
    <3>. QED BY <1>2 DEF ConfigTasks!Holds
  <2>2. \/ ConfigTasks!ValidationResult(elements) = ConfigTasks!Verdict("Failure")
        \/ ConfigTasks!ValidationResult(elements) = ConfigTasks!With("Success", elements)
        \/ ConfigTasks!ValidationResult(elements) = ConfigTasks!With("Warning", elements)
    BY DEF ConfigTasks!ValidationResult
  <2>3. \A s : ConfigTasks!Verdict(s).status = s /\ "payload" \notin DOMAIN ConfigTasks!Verdict(s)
    BY DEF ConfigTasks!Verdict
  <2>4. \A s, p : /\ ConfigTasks!With(s, p).status = s /\ "payload" \in DOMAIN ConfigTasks!With(s, p)
                  /\ ConfigTasks!With(s, p).payload = p
    BY DEF ConfigTasks!With
  <2>. HIDE DEF r, gathered
  <2>. QED BY <2>1, <2>2, <2>3, <2>4
<1>. HIDE DEF r, elements, gathered
<1>5. /\ process' = process
      /\ DOMAIN results' = DOMAIN results \cup {t}
      /\ results'[t] = r
      /\ \A u \in DOMAIN results : u # t => results'[u] = results[u]
  BY <1>1, ConfigReturn
<1>6. ConfigTyped'
  BY <1>1, <1>4, <1>5 DEF ConfigInv, ConfigTyped, ConfigTasks!Status
<1>7. ReadFiles' = ReadFiles
  BY <1>1 DEF ReadFiles, ConfigTasks!ProcessConfig, ConfigTasks!ValidatePath, ConfigTasks!Element,
     ConfigTasks!NothingParsed
<1>8. ValidateHandsOn' BY <1>3, <1>4, <1>5, <1>7 DEF ValidateHandsOn
<1>9. NamesHandedOn' BY <1>1, <1>5 DEF ConfigInv, NamesHandedOn
<1>10. CollectHandsOn' /\ ConfigTasks!EveryPathAccounted' /\ ConfigTasks!TakenOnce' /\ ConfigTasks!RefusedOnlyByName'
  BY <1>1, <1>5, CollectedKept
<1>11. ConfigTasks!NamesByPrecedence'
  BY <1>0, <1>1, <1>5 DEF ConfigInv, ConfigNames, ConfigTasks!NamesByPrecedence, NamesHandedOn
<1>. QED BY <1>6, <1>8, <1>9, <1>10, <1>11 DEF ConfigInv

\* A task that comes after Validate.
LEMMA ConfigLaterTask ==
  ASSUME ConfigInv, UNCHANGED <<host, disk, refused, named>>,
         NEW t \in {"Base/Config/AppName", "Base/Config/ValidateHSM", "Base/Config/LogLevel"},
         NEW r, t \notin DOMAIN results, ConfigTasks!Return(t, r), r.status \in ConfigTasks!Status,
         "Base/Config/Validate" \in DOMAIN results,
         t # "Base/Config/LogLevel" => r.status # "Error",
         t = "Base/Config/AppName" => ConfigTasks!NamesByPrecedence'
  PROVE  ConfigInv'
<1>0. ConfigNames BY ConfigNamesHold
<1>1. /\ process' = process
      /\ DOMAIN results' = DOMAIN results \cup {t}
      /\ results'[t] = r
      /\ \A u \in DOMAIN results : u # t => results'[u] = results[u]
  BY ConfigReturn
<1>2. ConfigTyped' BY <1>1 DEF ConfigInv, ConfigTyped
<1>3. ReadFiles' = ReadFiles
  BY DEF ReadFiles, ConfigTasks!ProcessConfig, ConfigTasks!ValidatePath, ConfigTasks!Element,
     ConfigTasks!NothingParsed
<1>4. ValidateHandsOn' BY <1>1, <1>3 DEF ConfigInv, ValidateHandsOn
<1>5. NamesHandedOn' BY <1>1 DEF ConfigInv, NamesHandedOn
<1>6. CollectHandsOn' /\ ConfigTasks!EveryPathAccounted' /\ ConfigTasks!TakenOnce' /\ ConfigTasks!RefusedOnlyByName'
  BY <1>1, CollectedKept
<1>7. ConfigTasks!NamesByPrecedence'
  <2>1. CASE t = "Base/Config/AppName" BY <2>1
  <2>2. CASE t # "Base/Config/AppName"
    BY <1>0, <1>1, <2>2 DEF ConfigInv, ConfigNames, ConfigTasks!NamesByPrecedence, ConfigTasks!Holds, NamesHandedOn
  <2>. QED BY <2>1, <2>2
<1>. QED BY <1>2, <1>4, <1>5, <1>6, <1>7 DEF ConfigInv

\* The content of a file has its names as a sequence.
LEMMA PrimaryNames ==
  ASSUME NEW c \in ConfigTasks!ContentType
  PROVE  /\ ConfigTasks!FindPrimaryNameKeyInConfigFile(c).names \in Seq(ConfigName)
         /\ c.app = <<>> => ConfigTasks!FindPrimaryNameKeyInConfigFile(c).names = <<>>
<1>. DEFINE M == [common : BOOLEAN, names : Seq(ConfigName)]
            S == {m \in ConfigTasks!Range(c.app) : m.common}
            found == ConfigTasks!FindPrimaryNameKeyInConfigFile(c)
<1>0. c.app \in Seq(M) BY DEF ConfigTasks!ContentType
<1>1. CASE \E i \in 1..Len(c.app) : c.app[i].common
  <2>. DEFINE a == ConfigTasks!Among(c.app, S)
  <2>1. a \in Seq(M) /\ ConfigTasks!Range(a) = ConfigTasks!Range(c.app) \cap S
    <3>. HIDE DEF M, S
    <3>. QED BY <1>0, ConfigAmong
  <2>2. ConfigTasks!Range(a) # {}
    <3>1. PICK i \in 1..Len(c.app) : c.app[i].common BY <1>1
    <3>2. c.app[i] \in ConfigTasks!Range(c.app) BY <1>0 DEF ConfigTasks!Range
    <3>. HIDE DEF a
    <3>. QED BY <2>1, <3>1, <3>2
  <2>3. found = a[1] BY <1>1 DEF ConfigTasks!FindPrimaryNameKeyInConfigFile
  <2>. HIDE DEF a, found
  <2>4. DOMAIN a = 1..Len(a) /\ Len(a) \in Nat
    <3>. HIDE DEF M
    <3>. QED BY <2>1
  <2>5. Len(a) >= 1
    <3>1. DOMAIN a # {} BY <2>2 DEF ConfigTasks!Range
    <3>. QED BY <2>4, <3>1
  <2>6. a[1] \in M
    <3>. HIDE DEF M
    <3>. QED BY <2>1, <2>4, <2>5
  <2>7. c.app # <<>> BY <1>1
  <2>. QED BY <2>3, <2>6, <2>7 DEF found
<1>2. CASE ~\E i \in 1..Len(c.app) : c.app[i].common
  <2>1. CASE c.app = <<>>
    BY <1>2, <2>1 DEF ConfigTasks!FindPrimaryNameKeyInConfigFile
  <2>2. CASE c.app # <<>>
    <3>1. c.app[1] \in M
      <4>. HIDE DEF M
      <4>. QED BY <1>0, <2>2
    <3>2. found = c.app[1] BY <1>2, <2>2 DEF ConfigTasks!FindPrimaryNameKeyInConfigFile
    <3>. QED BY <2>2, <3>1, <3>2
  <2>. QED BY <2>1, <2>2
<1>. QED BY <1>1, <1>2

\* App names are of files that could be read and parsed.
LEMMA AppNamesParsed ==
  ASSUME ConfigTyped, NEW elements \in Seq(ReadFiles)
  PROVE  LET infos == ConfigTasks!GetAppNamesFromConfig(elements)
         IN  \A i \in 1..Len(infos) : \E j \in 1..Len(elements) :
               /\ elements[j].config = infos[i].file /\ elements[j].status = "Success"
               /\ disk[infos[i].file].state = "file" /\ disk[infos[i].file].content.parses
               /\ infos[i].file \in ConfigPath
<1>. DEFINE E == [name : ConfigName, file : ConfigPath]
            Names(j) == ConfigTasks!FindPrimaryNameKeyInConfigFile(elements[j].parsed).names
            Of1(j) == [k \in 1..Len(Names(j)) |-> [name |-> Names(j)[k], file |-> elements[j].config]]
            ss == [j \in 1..Len(elements) |-> Of1(j)]
<1>1. ASSUME NEW j \in 1..Len(elements)
      PROVE  \E p \in ConfigPath : elements[j] = ConfigTasks!ProcessConfig(p)
  BY DEF ReadFiles
<1>2. Len(elements) \in Nat
  <2>. HIDE DEF ReadFiles
  <2>. QED OBVIOUS
<1>3. ASSUME NEW j \in 1..Len(elements)
      PROVE  /\ elements[j].config \in ConfigPath /\ Names(j) \in Seq(ConfigName)
             /\ Names(j) # <<>> =>
                  /\ elements[j].status = "Success"
                  /\ disk[elements[j].config].state = "file" /\ disk[elements[j].config].content.parses
  <2>1. PICK p \in ConfigPath : elements[j] = ConfigTasks!ProcessConfig(p) BY <1>1
  <2>2. PICK e : e = elements[j] OBVIOUS
  <2>3. \/ e = [config |-> p, status |-> "Failure", parsed |-> ConfigTasks!NothingParsed]
        \/ e = [config |-> p, status |-> "Success", parsed |-> ConfigTasks!NothingParsed]
        \/ /\ e = [config |-> p, status |-> "Success", parsed |-> disk[p].content]
           /\ disk[p].state = "file" /\ disk[p].content.parses
    BY <2>1, <2>2 DEF ConfigTasks!ProcessConfig, ConfigTasks!Element, ConfigTasks!ValidatePath
  <2>4. CASE e.parsed = ConfigTasks!NothingParsed
    <3>1. ConfigTasks!NothingParsed.app = <<>> BY DEF ConfigTasks!NothingParsed
    <3>2. Names(j) = <<>>
      BY <2>2, <2>4, <3>1 DEF ConfigTasks!FindPrimaryNameKeyInConfigFile
    <3>. QED BY <2>2, <2>3, <3>2
  <2>5. CASE /\ e = [config |-> p, status |-> "Success", parsed |-> disk[p].content]
             /\ disk[p].state = "file" /\ disk[p].content.parses
    <3>1. disk[p].content \in ConfigTasks!ContentType BY ConfigHostTyped
    <3>2. e.config = p /\ e.status = "Success" /\ e.parsed = disk[p].content BY <2>5
    <3>. HIDE DEF ConfigTasks!ContentType
    <3>3. Names(j) \in Seq(ConfigName) BY <2>2, <3>1, <3>2, PrimaryNames
    <3>. QED BY <2>2, <2>5, <3>2, <3>3
  <2>. QED BY <2>3, <2>4, <2>5
<1>. HIDE DEF Names
<1>4. \A j \in 1..Len(elements) : Of1(j) \in Seq(E)
  <2>1. SUFFICES ASSUME NEW j \in 1..Len(elements) PROVE Of1(j) \in Seq(E) OBVIOUS
  <2>2. Len(Names(j)) \in Nat /\ \A k \in 1..Len(Names(j)) : Names(j)[k] \in ConfigName BY <1>3
  <2>3. \A k \in 1..Len(Names(j)) : [name |-> Names(j)[k], file |-> elements[j].config] \in E
    BY <1>3, <2>2
  <2>. HIDE DEF E
  <2>. QED BY <2>2, <2>3
<1>5. ss \in Seq(Seq(E)) /\ Len(ss) = Len(elements)
  <2>. HIDE DEF Of1, E
  <2>. QED BY <1>2, <1>4
<1>6. PICK infos : infos = ConfigTasks!FlattenSeq(ss) OBVIOUS
<1>7. infos = ConfigTasks!GetAppNamesFromConfig(elements)
  BY <1>6 DEF ConfigTasks!GetAppNamesFromConfig, Names
<1>8. infos \in Seq(E) /\ ConfigTasks!Range(infos) = UNION {ConfigTasks!Range(ss[j]) : j \in 1..Len(ss)}
  <2>. HIDE DEF ss, E
  <2>. QED BY <1>5, <1>6, ConfigFlatten
<1>9. ASSUME NEW i \in 1..Len(infos)
      PROVE  \E j \in 1..Len(elements) :
               /\ elements[j].config = infos[i].file /\ elements[j].status = "Success"
               /\ disk[infos[i].file].state = "file" /\ disk[infos[i].file].content.parses
               /\ infos[i].file \in ConfigPath
  <2>1. infos[i] \in ConfigTasks!Range(infos)
    <3>. HIDE DEF E, ss
    <3>. QED BY <1>8 DEF ConfigTasks!Range
  <2>2. PICK j \in 1..Len(ss) : infos[i] \in ConfigTasks!Range(ss[j])
    <3>. HIDE DEF E, ss
    <3>. QED BY <1>8, <2>1
  <2>3. j \in 1..Len(elements) /\ ss[j] = Of1(j) BY <1>5, <2>2
  <2>. HIDE DEF ss
  <2>4. PICK k \in 1..Len(Names(j)) : infos[i] = [name |-> Names(j)[k], file |-> elements[j].config]
    BY <2>2, <2>3 DEF ConfigTasks!Range
  <2>5. infos[i].file = elements[j].config BY <2>4
  <2>6. Names(j) # <<>> BY <2>4
  <2>. QED BY <1>3, <2>3, <2>5, <2>6
<1>. QED BY <1>7, <1>9
\* What the tasks after Validate are given.
LEMMA ValidatedHolds ==
  ASSUME ConfigInv, "Base/Config/Validate" \in DOMAIN results
  PROVE  LET v == ConfigTasks!Upstream("Base/Config/Validate")
         IN  /\ v = results["Base/Config/Validate"]
             /\ ConfigTasks!HasPayload(v) => ConfigTasks!Holds(v) /\ v.payload \in Seq(ReadFiles)
<1>1. PICK v : v = results["Base/Config/Validate"] OBVIOUS
<1>2. /\ v.status \in {"None", "Success", "Warning", "Failure"}
      /\ v.status \in {"Success", "Warning"} <=> "payload" \in DOMAIN v
      /\ v.status \notin {"None", "Failure"} => v.payload \in Seq(ReadFiles)
  BY <1>1 DEF ConfigInv, ValidateHandsOn
<1>4. ConfigTasks!Upstream("Base/Config/Validate") = v BY <1>1 DEF ConfigTasks!Upstream
<1>5. ConfigTasks!HasPayload(v) => ConfigTasks!Holds(v) /\ v.payload \in Seq(ReadFiles)
  <2>. HIDE DEF ReadFiles
  <2>. QED BY <1>2 DEF ConfigTasks!HasPayload, ConfigTasks!Holds
<1>. QED BY <1>1, <1>4, <1>5

\* The name that a JVM gives is that of the first one with the property, and none
\* when that one is blank.
LEMMA NameOfSysProps ==
  ASSUME ConfigTyped
  PROVE  LET name == ConfigTasks!GetAppNameFromSysProps
             Earlier(k, v) == \A m \in 1..(k - 1) : host.appProps[m] = v
         IN  /\ name # None => \E k \in 1..Len(host.appProps) :
                  host.appProps[k] = name /\ name \in ConfigName /\ Earlier(k, None)
             /\ name = None => \A k \in 1..Len(host.appProps) :
                  host.appProps[k] \in ConfigName => \E m \in 1..(k - 1) : host.appProps[m] = Blank
<1>. DEFINE s == host.appProps
            name == ConfigTasks!GetAppNameFromSysProps
            having == {k \in 1..Len(s) : s[k] # None}
            first == CHOOSE k \in having : \A m \in having : k <= m
<1>1. /\ s \in Seq(ConfigName \cup {None, Blank})
      /\ None \notin ConfigName /\ Blank \notin ConfigName \cup {None}
  BY ConfigHostTyped, BaseTasksValues DEF BaseTasksAssumption, ConfigTasks!ConfigFilesAssumption
<1>2. name = IF having = {} \/ s[first] = Blank THEN None ELSE s[first]
  BY DEF ConfigTasks!GetAppNameFromSysProps
<1>3. CASE having = {}
  BY <1>1, <1>2, <1>3
<1>4. CASE having # {}
  <2>1. PICK k \in having : \A m \in having : k <= m
    BY <1>4, Least, having \in SUBSET Nat
  <2>2. first \in having /\ \A m \in having : first <= m
    BY <2>1
  <2>. HIDE DEF first
  <2>3. \A m \in 1..(first - 1) : s[m] = None
    BY <1>1, <2>2
  <2>4. s[first] \in ConfigName \cup {Blank}
    BY <1>1, <2>2
  <2>5. ASSUME s[first] = Blank, NEW n \in 1..Len(s), s[n] \in ConfigName
        PROVE  \E m \in 1..(n - 1) : s[m] = Blank
    <3>1. n \in having /\ n # first BY <1>1, <2>5
    <3>2. first \in 1..(n - 1) BY <1>1, <2>2, <3>1
    <3>. QED BY <2>5, <3>2
  <2>. QED BY <1>1, <1>2, <1>4, <2>2, <2>3, <2>4, <2>5
<1>. QED BY <1>3, <1>4

\* AppName hands on the name of the environment or of a JVM, or names of parsed files.
LEMMA AppNameStep ==
  ASSUME ConfigInv, ConfigTasks!BaseConfigAppName
  PROVE  ConfigInv'
<1>. DEFINE t == "Base/Config/AppName"
            validated == ConfigTasks!Upstream("Base/Config/Validate")
            infos == ConfigTasks!GetAppNamesFromConfig(validated.payload)
            given == ConfigTasks!GivenAppName
<1>0. ConfigNames BY ConfigNamesHold
<1>1. /\ t \notin DOMAIN results /\ UNCHANGED <<host, disk, refused, named>>
      /\ "Base/Config/Validate" \in DOMAIN results
  BY <1>0 DEF ConfigNames, ConfigTasks!BaseConfigAppName, ConfigTasks!Ready
<1>2. /\ validated = results["Base/Config/Validate"]
      /\ ConfigTasks!HasPayload(validated) =>
           ConfigTasks!Holds(validated) /\ validated.payload \in Seq(ReadFiles)
  BY <1>1, ValidatedHolds
<1>3. PICK r : /\ ConfigTasks!Return(t, r)
               /\ \/ given.name # None /\ r = ConfigTasks!With("Success", <<given>>)
                  \/ r = ConfigTasks!Verdict("None") \/ r = ConfigTasks!Verdict("Warning")
                  \/ /\ given.name = None /\ ConfigTasks!HasPayload(validated)
                     /\ r = ConfigTasks!With("Success", infos)
  <2>. HIDE DEF infos, validated, given
  <2>. DEFINE rr == IF given.name # None THEN ConfigTasks!With("Success", <<given>>)
                    ELSE ConfigTasks!AppNamesOfFiles(validated)
  <2>1. ConfigTasks!Return(t, rr)
    BY <1>0 DEF ConfigNames, ConfigTasks!BaseConfigAppName, validated, given
  <2>2. \/ ConfigTasks!AppNamesOfFiles(validated) = ConfigTasks!Verdict("None")
        \/ ConfigTasks!AppNamesOfFiles(validated) = ConfigTasks!Verdict("Warning")
        \/ /\ ConfigTasks!HasPayload(validated)
           /\ ConfigTasks!AppNamesOfFiles(validated) = ConfigTasks!With("Success", infos)
    BY <1>2 DEF ConfigTasks!AppNamesOfFiles, infos
  <2>. QED BY <2>1, <2>2
<1>4. /\ r.status \in {"None", "Success", "Warning"}
      /\ "payload" \in DOMAIN r =>
           \/ r.payload = <<given>> /\ given.name # None
           \/ r.payload = infos /\ validated.payload \in Seq(ReadFiles) /\ given.name = None
  <2>1. \A s : ConfigTasks!Verdict(s).status = s /\ "payload" \notin DOMAIN ConfigTasks!Verdict(s)
    BY DEF ConfigTasks!Verdict
  <2>2. \A s, p : ConfigTasks!With(s, p).status = s /\ ConfigTasks!With(s, p).payload = p
    BY DEF ConfigTasks!With
  <2>. HIDE DEF infos, given, validated
  <2>. QED BY <1>2, <1>3, <2>1, <2>2
<1>5. /\ DOMAIN results' = DOMAIN results \cup {t} /\ results'[t] = r
      /\ results'["Base/Config/Validate"] = validated
  BY <1>1, <1>2, <1>3, ConfigReturn
<1>6. ConfigTasks!NamesByPrecedence'
  <2>0. ConfigTyped BY DEF ConfigInv
  <2>. DEFINE name == ConfigTasks!GetAppNameFromSysProps
              OfEnv(info) == info = [name |-> host.appEnv, file |-> "NEW_RELIC_APP_NAME"]
              OfJVM(info) == \E k \in 1..Len(host.appProps) :
                   /\ host.appProps[k] = info.name /\ info.name \in ConfigName
                   /\ \A m \in 1..(k - 1) : host.appProps[m] = None
              OfFile(info) ==
                 /\ \E j \in 1..Len(validated.payload) :
                    /\ validated.payload[j].config = info.file
                    /\ validated.payload[j].status = "Success"
                    /\ disk[info.file].state = "file" /\ disk[info.file].content.parses
                 /\ \A k \in 1..Len(host.appProps) :
                      host.appProps[k] \in ConfigName =>
                        \E m \in 1..(k - 1) : host.appProps[m] = Blank
              Fine(info) ==
                CASE host.appEnv # None -> OfEnv(info)
                  [] host.appEnv = None /\ info.file \in ConfigTasks!AppNameSources -> OfJVM(info)
                  [] OTHER -> OfFile(info)
  <2>1. SUFFICES ASSUME "payload" \in DOMAIN r, NEW i \in 1..Len(r.payload)
        PROVE  Fine(r.payload[i])
    BY <1>0, <1>1, <1>5 DEF ConfigNames, ConfigTasks!NamesByPrecedence, ConfigTasks!Holds
  <2>2. CASE r.payload = <<given>> /\ given.name # None
    <3>1. i = 1 /\ r.payload[i] = given
      <4>. HIDE DEF given
      <4>. QED BY <2>1, <2>2
    <3>2. CASE host.appEnv # None
      <4>1. OfEnv(given) BY <3>2 DEF ConfigTasks!GivenAppName
      <4>. HIDE DEF given, OfEnv, OfJVM, OfFile
      <4>. QED BY <3>1, <3>2, <4>1
    <3>3. CASE host.appEnv = None
      <4>1. /\ given.file \in ConfigTasks!AppNameSources /\ given.name = name
        BY <3>3 DEF ConfigTasks!GivenAppName, ConfigTasks!AppNameSources
      <4>. HIDE DEF given, name
      <4>2. OfJVM(given) BY <2>0, <2>2, <4>1, NameOfSysProps DEF name
      <4>. HIDE DEF OfEnv, OfJVM, OfFile
      <4>. QED BY <3>1, <3>3, <4>1, <4>2
    <3>. QED BY <3>2, <3>3
  <2>3. CASE r.payload = infos /\ validated.payload \in Seq(ReadFiles) /\ given.name = None
    <3>1. host.appEnv = None /\ name = None
      BY <2>3 DEF ConfigTasks!GivenAppName
    <3>. HIDE DEF validated, ReadFiles, given
    <3>2. \A k \in 1..Len(infos) :
            /\ infos[k].file \in ConfigPath
            /\ \E j \in 1..Len(validated.payload) :
                 /\ validated.payload[j].config = infos[k].file /\ validated.payload[j].status = "Success"
                 /\ disk[infos[k].file].state = "file" /\ disk[infos[k].file].content.parses
      BY <2>0, <2>3, AppNamesParsed
    <3>3. ConfigTasks!AppNameSources \cap ConfigPath = {}
      BY BaseTasksValues DEF BaseTasksAssumption, ConfigTasks!ConfigFilesAssumption
    <3>. HIDE DEF infos
    <3>4. OfFile(r.payload[i]) /\ r.payload[i].file \in ConfigPath
      BY <2>0, <2>1, <2>3, <3>1, <3>2, NameOfSysProps
    <3>. HIDE DEF OfEnv, OfJVM, OfFile
    <3>. QED BY <3>1, <3>3, <3>4
  <2>. HIDE DEF Fine, given, infos, validated
  <2>. QED BY <1>4, <2>1, <2>2, <2>3
<1>7. r.status \in ConfigTasks!Status /\ r.status # "Error" BY <1>4 DEF ConfigTasks!Status
<1>. QED BY <1>1, <1>3, <1>6, <1>7, ConfigLaterTask

\* BaseConfigValidateHSM.
LEMMA HSMStep ==
  ASSUME ConfigInv, ConfigTasks!BaseConfigValidateHSM
  PROVE  ConfigInv'
<1>. DEFINE t == "Base/Config/ValidateHSM"
<1>0. ConfigNames BY ConfigNamesHold
<1>1. /\ t \notin DOMAIN results /\ UNCHANGED <<host, disk, refused, named>>
      /\ "Base/Config/Validate" \in DOMAIN results
  BY <1>0 DEF ConfigNames, ConfigTasks!BaseConfigValidateHSM, ConfigTasks!Ready
<1>2. PICK r : ConfigTasks!Return(t, r) /\ r.status \in {"None", "Info"}
  <2>1. PICK settings : ConfigTasks!Return(t, IF settings = {} THEN ConfigTasks!Verdict("None")
                                               ELSE ConfigTasks!With("Info", settings))
    BY <1>0 DEF ConfigNames, ConfigTasks!BaseConfigValidateHSM
  <2>2. ConfigTasks!Verdict("None").status = "None" /\ ConfigTasks!With("Info", settings).status = "Info"
    BY DEF ConfigTasks!Verdict, ConfigTasks!With
  <2>. QED BY <2>1, <2>2
<1>3. r.status \in ConfigTasks!Status /\ r.status # "Error" BY <1>2 DEF ConfigTasks!Status
<1>. QED BY <1>1, <1>2, <1>3, ConfigLaterTask

\* BaseConfigLogLevel.
LEMMA LogLevelStep ==
  ASSUME ConfigInv, ConfigTasks!BaseConfigLogLevel
  PROVE  ConfigInv'
<1>. DEFINE t == "Base/Config/LogLevel"
            validated == ConfigTasks!Upstream("Base/Config/Validate")
            last == ConfigTasks!Last(validated.payload).parsed.levels
            s == CASE ~ConfigTasks!HasPayload(validated) -> "None"
                   [] ConfigTasks!HasPayload(validated) /\ ~ConfigTasks!Holds(validated) -> "Error"
                   [] OTHER -> IF validated.payload = <<>> THEN "None"
                               ELSE IF last = <<>> THEN "Failure"
                                    ELSE ConfigTasks!LevelVerdict(ConfigTasks!Last(last))
<1>0. ConfigNames BY ConfigNamesHold
<1>1. /\ t \notin DOMAIN results /\ UNCHANGED <<host, disk, refused, named>>
      /\ "Base/Config/Validate" \in DOMAIN results
  BY <1>0 DEF ConfigNames, ConfigTasks!BaseConfigLogLevel, ConfigTasks!Ready
<1>2. ConfigTasks!Return(t, ConfigTasks!Verdict(s))
  BY <1>0 DEF ConfigNames, ConfigTasks!BaseConfigLogLevel
<1>3. s \in ConfigTasks!Status
  <2>1. \A l : ConfigTasks!LevelVerdict(l) \in {"Success", "Warning", "Error"}
    BY DEF ConfigTasks!LevelVerdict
  <2>. HIDE DEF validated, last
  <2>. QED BY <2>1 DEF ConfigTasks!Status
<1>. HIDE DEF s
<1>4. ConfigTasks!Verdict(s).status \in ConfigTasks!Status BY <1>3 DEF ConfigTasks!Verdict
<1>. QED BY <1>1, <1>2, <1>4, ConfigLaterTask

\* Files that go or are locked are no directories, and Validate has not read any.
LEMMA FileChangesStep ==
  ASSUME ConfigInv, ConfigTasks!FileChanges
  PROVE  ConfigInv'
<1>0. ConfigNames BY ConfigNamesHold
<1>1. /\ UNCHANGED <<host, refused, named, results, process>>
      /\ "Base/Config/Validate" \notin DOMAIN results
  BY <1>0 DEF ConfigNames, ConfigTasks!FileChanges
<1>2. PICK p \in ConfigPath, s \in {"missing", "locked"} :
        disk[p].state = "file" /\ disk' = [disk EXCEPT ![p].state = s]
  <2>1. ConfigFragile \subseteq ConfigPath
    BY BaseTasksValues DEF BaseTasksAssumption, ConfigTasks!ConfigFilesAssumption
  <2>. QED BY <2>1 DEF ConfigTasks!FileChanges
<1>3. disk' \in ConfigTasks!DiskType /\ \A q \in ConfigPath : disk'[q].state = "dir" <=> disk[q].state = "dir"
  <2>. DEFINE C == ConfigTasks!ContentType
              R == [state : {"missing", "dir", "locked", "file"}, content : C]
  <2>. HIDE DEF C
  <2>1. disk \in [ConfigPath -> R] BY DEF ConfigInv, ConfigTyped, ConfigTasks!DiskType, C
  <2>2. disk[p] \in R BY <2>1
  <2>3. [disk[p] EXCEPT !.state = s] \in R /\ [disk[p] EXCEPT !.state = s].state = s BY <2>2
  <2>4. disk' = [disk EXCEPT ![p] = [disk[p] EXCEPT !.state = s]] BY <1>2
  <2>5. disk' \in [ConfigPath -> R]
    <3>. HIDE DEF R
    <3>. QED BY <2>1, <2>3, <2>4
  <2>6. \A q \in ConfigPath : disk'[q].state = "dir" <=> disk[q].state = "dir"
    <3>. HIDE DEF R
    <3>. QED BY <1>2, <2>1, <2>3, <2>4
  <2>. QED BY <2>5, <2>6 DEF ConfigTasks!DiskType, C
<1>4. ConfigTyped' BY <1>1, <1>3 DEF ConfigInv, ConfigTyped
<1>5. CollectHandsOn' /\ ValidateHandsOn' /\ NamesHandedOn'
  BY <1>1 DEF ConfigInv, CollectHandsOn, ValidateHandsOn, NamesHandedOn
<1>6. ConfigTasks!TakenOnce' BY <1>1 DEF ConfigInv, ConfigTasks!TakenOnce, ConfigTasks!Holds
<1>7. /\ ConfigTasks!Searched' <=> ConfigTasks!Searched
      /\ ConfigTasks!NamedByHost' = ConfigTasks!NamedByHost /\ ConfigTasks!Taken' = ConfigTasks!Taken
  BY <1>1 DEF ConfigTasks!Searched, ConfigTasks!NamedByHost, ConfigTasks!Taken, ConfigTasks!Upstream
<1>8. ConfigTasks!RefusedOnlyByName'
  BY <1>1, <1>7 DEF ConfigInv, ConfigTasks!RefusedOnlyByName, ConfigTasks!Holds
<1>9. ConfigTasks!EveryPathAccounted'
  <2>1. ConfigTasks!NamedByHost \subseteq ConfigPath /\ host.inside \subseteq ConfigPath
    BY ConfigHostTyped DEF ConfigInv, ConfigTasks!NamedByHost, ConfigTasks!Range
  <2>2. \A q \in ConfigTasks!NamedByHost \cup host.inside : disk'[q].state = "dir" <=> disk[q].state = "dir"
    BY <1>3, <2>1
  <2>3. UNION {host.inside : q \in {q \in ConfigTasks!NamedByHost : disk[q].state = "dir"}} \subseteq host.inside
    OBVIOUS
  <2>4. {q \in ConfigTasks!NamedByHost : disk'[q].state = "dir"} =
          {q \in ConfigTasks!NamedByHost : disk[q].state = "dir"}
    BY <2>2
  <2>. QED BY <1>1, <1>7, <2>2, <2>3, <2>4
         DEF ConfigInv, ConfigTasks!EveryPathAccounted, ConfigTasks!Holds
<1>10. ConfigTasks!NamesByPrecedence'
  BY <1>0, <1>1 DEF ConfigInv, ConfigNames, NamesHandedOn, ConfigTasks!NamesByPrecedence
<1>. QED BY <1>4, <1>5, <1>6, <1>8, <1>9, <1>10 DEF ConfigInv

\* A stutter, and the end.
LEMMA ConfigStutters ==
  ASSUME ConfigInv, UNCHANGED <<host, disk, refused, named, results, process>>
  PROVE  ConfigInv'
<1>1. ConfigTyped' BY DEF ConfigInv, ConfigTyped
<1>2. CollectHandsOn' /\ ConfigTasks!EveryPathAccounted' /\ ConfigTasks!TakenOnce' /\ ConfigTasks!RefusedOnlyByName'
  BY CollectedKept
<1>3. ReadFiles' = ReadFiles
  BY DEF ReadFiles, ConfigTasks!ProcessConfig, ConfigTasks!ValidatePath, ConfigTasks!Element,
     ConfigTasks!NothingParsed
<1>4. ValidateHandsOn' /\ NamesHandedOn' BY <1>3 DEF ConfigInv, ValidateHandsOn, NamesHandedOn
<1>5. ConfigTasks!NamesByPrecedence'
  BY DEF ConfigInv, ConfigTasks!NamesByPrecedence, ConfigTasks!Holds
<1>. QED BY <1>1, <1>2, <1>4, <1>5 DEF ConfigInv

\* Every step of the tasks of base/config keeps the invariant,
LEMMA ConfigKept ==
  ASSUME ConfigInv, ConfigTasks!Next
  PROVE  ConfigInv'
<1>1. CASE ConfigTasks!BaseConfigCollect
  BY <1>1, OverrideStep, SearchStep DEF ConfigTasks!BaseConfigCollect
<1>2. CASE ConfigTasks!BaseConfigValidate BY <1>2, ValidateStep
<1>3. CASE ConfigTasks!BaseConfigAppName BY <1>3, AppNameStep
<1>4. CASE ConfigTasks!BaseConfigValidateHSM BY <1>4, HSMStep
<1>5. CASE ConfigTasks!BaseConfigLogLevel BY <1>5, LogLevelStep
<1>6. CASE ConfigTasks!FileChanges BY <1>6, FileChangesStep
<1>7. CASE ConfigTasks!Done BY <1>7, ConfigStutters DEF ConfigTasks!Done, ConfigTasks!vars
<1>. QED BY <1>1, <1>2, <1>3, <1>4, <1>5, <1>6, <1>7 DEF ConfigTasks!Next

\* which holds at the start
LEMMA ConfigStarts ==
  ASSUME ConfigTasks!Init
  PROVE  ConfigInv
<1>0. ConfigNames BY ConfigNamesHold
<1>1. /\ host \in ConfigHost /\ disk \in ConfigDisk /\ refused = {} /\ named = {}
      /\ DOMAIN results = {} /\ process = "running"
  BY DEF ConfigTasks!Init, ConfigTasks!NothingRun
<1>2. ConfigTyped
  BY <1>1, BaseTasksValues DEF ConfigTyped, BaseTasksAssumption, ConfigTasks!ConfigFilesAssumption
<1>. QED BY <1>0, <1>1, <1>2 DEF ConfigInv, ConfigNames, CollectHandsOn, ValidateHandsOn, NamesHandedOn,
       ConfigTasks!EveryPathAccounted, ConfigTasks!TakenOnce, ConfigTasks!RefusedOnlyByName,
       ConfigTasks!Searched, ConfigTasks!NamesByPrecedence

\* and implies what tasks.go asserts of the payloads and the type invariant.
LEMMA ConfigStatements ==
  ASSUME ConfigInv
  PROVE  ConfigTasks!AssertionsHold /\ ConfigTasks!TypeOK
<1>0. ConfigNames BY ConfigNamesHold
<1>1. ConfigTasks!AssertionsHold
  BY <1>0 DEF ConfigInv, ConfigNames, ConfigTasks!AssertionsHold, ValidateHandsOn, NamesHandedOn
<1>2. ConfigTasks!TypeOK
  BY ConfigHostTyped DEF ConfigInv, ConfigTyped, ConfigTasks!TypeOK
<1>. QED BY <1>1, <1>2

-----------------------------------------------------------------------------
(***************************************************************************)
(* base/log: the logs that are copied                                      *)
(***************************************************************************)

\* How the results grow when a task of base/log returns r.
LEMMA LogReturn ==
  ASSUME NEW t, NEW r, LogTasks!Return(t, r)
  PROVE  /\ process' = process
         /\ DOMAIN results' = DOMAIN results \cup {t}
         /\ results'[t] = r
         /\ \A u \in DOMAIN results : u # t => results'[u] = results[u]
BY DEF LogTasks!Return

\* Every task ends with one of its statuses, and what is copied can be read.
LogTyped ==
  /\ host \in LogHost /\ DOMAIN results \subseteq LogTasks!Tasks /\ process \in {"running", "panicked"}
  /\ \A t \in DOMAIN results : results[t].status \in LogTasks!Status
  /\ DOMAIN collected = {"Copy", "Collect"}
  /\ \A p \in collected["Copy"] : LogTasks!ValidatePath(p)

\* Validate hands on the settings of the host.
SettingsHandedOn ==
  "Validate" \in DOMAIN results /\ "payload" \in DOMAIN results["Validate"] =>
    results["Validate"].payload = host.configs

\* Nobody is asked and nothing is copied before Copy, which runs after its sources.
NothingBeforeCopy ==
  IF "Copy" \in DOMAIN results THEN LogTasks!Sources \subseteq DOMAIN results
  ELSE withheld = {} /\ collected["Copy"] = {}

\* The inductive invariant of base/log.
LogInv ==
  /\ LogTyped /\ SettingsHandedOn /\ NothingBeforeCopy
  /\ LogTasks!DeclinedNotCopied
  /\ LogTasks!ConfiguredLogCopied
  /\ LogTasks!OldLogAlone

\* The sources that have run keep their results, and with them the elements.
LEMMA SourcesKept ==
  ASSUME UNCHANGED host,
         \A t \in LogTasks!Sources : t \in DOMAIN results /\ t \in DOMAIN results' /\ results'[t] = results[t]
  PROVE  /\ LogTasks!Configs' = LogTasks!Configs
         /\ LogTasks!SysPropElements' = LogTasks!SysPropElements
         /\ LogTasks!EnvElements' = LogTasks!EnvElements
         /\ LogTasks!UnmatchedDirs' = LogTasks!UnmatchedDirs
         /\ LogTasks!UnmatchedNames' = LogTasks!UnmatchedNames
<1>1. /\ LogTasks!EnvVars' = LogTasks!EnvVars /\ LogTasks!SysProps' = LogTasks!SysProps
      /\ LogTasks!Configs' = LogTasks!Configs
  BY DEF LogTasks!EnvVars, LogTasks!SysProps, LogTasks!Configs, LogTasks!Given,
     LogTasks!Upstream, LogTasks!Holds, LogTasks!Sources
<1>2. /\ LogTasks!SysPropElements' = LogTasks!SysPropElements
      /\ LogTasks!EnvElements' = LogTasks!EnvElements
  BY <1>1 DEF LogTasks!SysPropElements, LogTasks!EnvElements, LogTasks!HasProp, LogTasks!Exists, LogTasks!Real
<1>3. /\ LogTasks!UnmatchedDirs' = LogTasks!UnmatchedDirs
      /\ LogTasks!UnmatchedNames' = LogTasks!UnmatchedNames
  BY <1>1 DEF LogTasks!UnmatchedDirs, LogTasks!UnmatchedNames, LogTasks!LoneProp, LogTasks!Lone,
     LogTasks!HasProp, LogTasks!Exists, LogTasks!Real
<1>. QED BY <1>1, <1>2, <1>3

\* What is said of a copy stays true while the settings and the files are those
\* that Copy saw.
LEMMA CopyKept ==
  ASSUME LogInv, UNCHANGED <<host, withheld>>, collected'["Copy"] = collected["Copy"],
         "Copy" \in DOMAIN results' <=> "Copy" \in DOMAIN results,
         \A u \in DOMAIN results : u \in DOMAIN results' /\ results'[u] = results[u]
  PROVE  LogTasks!DeclinedNotCopied' /\ LogTasks!ConfiguredLogCopied' /\ LogTasks!OldLogAlone'
<1>1. LogTasks!DeclinedNotCopied' BY DEF LogInv, LogTasks!DeclinedNotCopied
<1>2. CASE "Copy" \notin DOMAIN results
  <2>1. LogTasks!ConfiguredLogCopied' BY <1>2 DEF LogTasks!ConfiguredLogCopied, LogTasks!Ran
  <2>2. collected'["Copy"] = {} BY <1>2 DEF LogInv, NothingBeforeCopy
  <2>3. LogTasks!OldLogAlone' BY <2>2 DEF LogTasks!OldLogAlone
  <2>. QED BY <1>1, <2>1, <2>3
<1>3. CASE "Copy" \in DOMAIN results
  <2>1. \A t \in LogTasks!Sources : t \in DOMAIN results /\ t \in DOMAIN results' /\ results'[t] = results[t]
    BY <1>3 DEF LogInv, NothingBeforeCopy
  <2>2. /\ LogTasks!Configs' = LogTasks!Configs
        /\ LogTasks!SysPropElements' = LogTasks!SysPropElements
        /\ LogTasks!EnvElements' = LogTasks!EnvElements
        /\ LogTasks!UnmatchedDirs' = LogTasks!UnmatchedDirs
        /\ LogTasks!UnmatchedNames' = LogTasks!UnmatchedNames
    BY <2>1, SourcesKept
  <2>5. results'["Copy"] = results["Copy"] BY <1>3
  <2>6. LogTasks!ConfiguredLogCopied'
    BY <1>3, <2>2, <2>5 DEF LogInv, LogTasks!ConfiguredLogCopied, LogTasks!Ran
  <2>7. LogTasks!OldLogAlone'
    BY <2>2 DEF LogInv, LogTasks!OldLogAlone, LogTasks!Days
  <2>. QED BY <1>1, <2>6, <2>7
<1>. QED BY <1>2, <1>3

\* A task other than Copy.
LEMMA LogOtherTask ==
  ASSUME LogInv, UNCHANGED <<host, withheld>>, collected'["Copy"] = collected["Copy"],
         DOMAIN collected' = DOMAIN collected,
         NEW t \in LogTasks!Tasks, t # "Copy", t \notin DOMAIN results, NEW r, LogTasks!Return(t, r),
         r.status \in LogTasks!Status,
         t = "Validate" /\ "payload" \in DOMAIN r => r.payload = host.configs
  PROVE  LogInv'
<1>1. /\ process' = process
      /\ DOMAIN results' = DOMAIN results \cup {t}
      /\ results'[t] = r
      /\ \A u \in DOMAIN results : u # t => results'[u] = results[u]
  BY LogReturn
<1>2. LogTyped'
  <2>1. \A p : LogTasks!ValidatePath(p)' <=> LogTasks!ValidatePath(p)
    BY DEF LogTasks!ValidatePath, LogTasks!Exists, LogTasks!Real
  <2>. QED BY <1>1, <2>1 DEF LogInv, LogTyped, LogTasks!ValidatePath, LogTasks!Exists, LogTasks!Real
<1>3. SettingsHandedOn' BY <1>1 DEF LogInv, SettingsHandedOn
<1>4. NothingBeforeCopy' BY <1>1 DEF LogInv, NothingBeforeCopy
<1>5. LogTasks!DeclinedNotCopied' /\ LogTasks!ConfiguredLogCopied' /\ LogTasks!OldLogAlone'
  BY <1>1, CopyKept
<1>. QED BY <1>2, <1>3, <1>4, <1>5 DEF LogInv

\* Nothing but the process changes.
LEMMA LogEnds ==
  ASSUME LogInv, UNCHANGED <<host, withheld, collected, results>>,
         process' \in {"running", "panicked"}
  PROVE  LogInv'
<1>1. LogTyped'
  BY DEF LogInv, LogTyped, LogTasks!ValidatePath, LogTasks!Exists, LogTasks!Real
<1>2. SettingsHandedOn' /\ NothingBeforeCopy' BY DEF LogInv, SettingsHandedOn, NothingBeforeCopy
<1>3. LogTasks!DeclinedNotCopied' /\ LogTasks!ConfiguredLogCopied' /\ LogTasks!OldLogAlone'
  BY CopyKept
<1>. QED BY <1>1, <1>2, <1>3 DEF LogInv

-----------------------------------------------------------------------------
(* What Copy looks at *)

\* g is the sequences a, b and c one after the other.
ThreeFrom(E, g, a, b, c) ==
  a \in Seq(E) /\ b \in Seq(E) /\ c \in Seq(E) /\ Len(a) >= 1 /\ g = a \o b \o c

\* Its elements are theirs, and it begins as a does.
LEMMA ThreeParts ==
  ASSUME NEW E, NEW a, NEW b, NEW c, NEW g, ThreeFrom(E, g, a, b, c)
  PROVE  /\ g \in Seq(E) /\ Range(g) = Range(a) \cup Range(b) \cup Range(c)
         /\ g[1] = a[1] /\ Len(g) >= 1
<1>. USE DEF ThreeFrom
<1>1. PICK d : d = a \o b OBVIOUS
<1>2. d \in Seq(E) /\ Range(d) = Range(a) \cup Range(b) BY <1>1, ConcatRange
<1>3. d[1] = a[1] /\ Len(d) >= 1 BY <1>1
<1>4. g = d \o c BY <1>1
<1>5. g \in Seq(E) /\ Range(g) = Range(d) \cup Range(c) BY <1>2, <1>4, ConcatRange
<1>6. g[1] = d[1] /\ Len(g) >= 1 BY <1>2, <1>3, <1>4
<1>. QED BY <1>2, <1>3, <1>5, <1>6

\* The groups of elements: those the user is asked about first, then those the
\* settings name, those of settings that lack a part, and the standard ones.
LEMMA GroupsOfElements ==
  ASSUME LogInv, NEW groups \in LogTasks!CollectFilePaths
  PROVE  /\ groups[1] = LogTasks!SecureElements
         /\ DOMAIN groups = 1..Len(groups) /\ Len(groups) \in Nat /\ Len(groups) >= 1
         /\ LogTasks!SysPropElements \in Range(groups)
         /\ \A c \in LogTasks!Range(LogTasks!Configs) :
              LogTasks!Range(LogTasks!ConfigElements(c)) \subseteq Range(groups)
         /\ \E unmatched \in LogTasks!UnmatchedElements, standard \in LogTasks!StandardElements :
              \A g \in Range(groups) :
                \/ g \in {LogTasks!SecureElements, LogTasks!EnvElements, LogTasks!SysPropElements,
                          unmatched, standard}
                \/ \E c \in LogTasks!Range(LogTasks!Configs) :
                     g \in LogTasks!Range(LogTasks!ConfigElements(c))
<1>. DEFINE C == LogTasks!Configs
            E == UNION {Range(LogTasks!ConfigElements(C[i])) : i \in DOMAIN C}
            ss == [i \in DOMAIN C |-> LogTasks!ConfigElements(C[i])]
            first == <<LogTasks!SecureElements, LogTasks!EnvElements, LogTasks!SysPropElements>>
<1>0. \A f : LogTasks!Range(f) = Range(f) BY DEF LogTasks!Range, Range
<1>1. DOMAIN C = 1..Len(C) /\ Len(C) \in Nat
  <2>1. host.configs \in Seq([full : LogTasks!Value, dir : LogTasks!Value, name : LogTasks!Value,
                              net : BOOLEAN])
    BY BaseTasksValues DEF LogInv, LogTyped, BaseTasksAssumption, LogTasks!BaseLogAssumption
  <2>2. C = host.configs \/ C = <<>>
    BY DEF LogInv, SettingsHandedOn, LogTasks!Configs, LogTasks!Given, LogTasks!Upstream, LogTasks!Holds,
       LogTasks!Verdict
  <2>. HIDE DEF C
  <2>. QED BY <2>1, <2>2
<1>. HIDE DEF C
<1>2. \A i \in DOMAIN C : LogTasks!ConfigElements(C[i]) \in Seq(E)
  <2>1. \A i \in DOMAIN C : Range(LogTasks!ConfigElements(C[i])) \subseteq E OBVIOUS
  <2>. HIDE DEF E
  <2>2. SUFFICES ASSUME NEW i \in DOMAIN C PROVE LogTasks!ConfigElements(C[i]) \in Seq(E) OBVIOUS
  <2>3. PICK a, b : LogTasks!ConfigElements(C[i]) = <<a, b>> BY DEF LogTasks!ConfigElements
  <2>4. a \in Range(<<a, b>>) /\ b \in Range(<<a, b>>) BY DEF Range
  <2>5. a \in E /\ b \in E BY <2>1, <2>3, <2>4
  <2>. QED BY <2>3, <2>5
<1>3. ss \in Seq(Seq(E)) /\ Len(ss) = Len(C)
  <2>. HIDE DEF E
  <2>. QED BY <1>1, <1>2
<1>4. PICK flat : flat = LogTasks!FlattenSeq(ss) OBVIOUS
<1>5. flat \in Seq(E) /\ Range(flat) = UNION {Range(ss[i]) : i \in 1..Len(ss)}
  <2>1. flat = FlattenSeq(ss)
    <3>. HIDE DEF ss
    <3>. QED BY <1>4 DEF LogTasks!FlattenSeq, FlattenSeq
  <2>. HIDE DEF E, ss
  <2>. QED BY <1>3, <2>1, FlattenSeqRange
<1>6. Range(flat) = E
  <2>1. \A i \in DOMAIN C : ss[i] = LogTasks!ConfigElements(C[i]) OBVIOUS
  <2>. HIDE DEF ss
  <2>2. UNION {Range(ss[i]) : i \in 1..Len(ss)} = UNION {Range(ss[i]) : i \in DOMAIN C} BY <1>1, <1>3
  <2>3. UNION {Range(ss[i]) : i \in DOMAIN C} = E BY <2>1
  <2>. QED BY <1>5, <2>2, <2>3
<1>7. PICK unmatched \in LogTasks!UnmatchedElements, standard \in LogTasks!StandardElements :
        groups = (first \o flat) \o <<unmatched, standard>>
  <2>1. PICK unmatched \in LogTasks!UnmatchedElements, standard \in LogTasks!StandardElements :
          groups = LogTasks!Groups(unmatched, standard)
    BY DEF LogTasks!CollectFilePaths
  <2>2. ss = [i \in DOMAIN LogTasks!Configs |-> LogTasks!ConfigElements(LogTasks!Configs[i])]
    BY DEF C
  <2>3. LogTasks!Groups(unmatched, standard) = (first \o LogTasks!FlattenSeq(ss)) \o <<unmatched, standard>>
    <3>. HIDE DEF ss
    <3>. QED BY <2>2 DEF LogTasks!Groups
  <2>. QED BY <1>4, <2>1, <2>3
<1>. DEFINE F == {first[1], first[2], first[3], unmatched, standard} \cup E
<1>8. first \in Seq(F) /\ flat \in Seq(F) /\ <<unmatched, standard>> \in Seq(F)
  <2>1. E \subseteq F OBVIOUS
  <2>2. flat \in Seq(F)
    <3>. HIDE DEF E, F
    <3>. QED BY <1>5, <2>1
  <2>. HIDE DEF E
  <2>. QED BY <2>2
<1>9. /\ groups \in Seq(F)
      /\ Range(groups) = Range(first) \cup Range(flat) \cup Range(<<unmatched, standard>>)
      /\ groups[1] = LogTasks!SecureElements /\ Len(groups) >= 1
  <2>. DEFINE two == <<unmatched, standard>>
  <2>0. two \in Seq(F) BY <1>8
  <2>1. groups = (first \o flat) \o two BY <1>7
  <2>2. first[1] = LogTasks!SecureElements /\ Len(first) >= 1 OBVIOUS
  <2>. HIDE DEF F, first, two
  <2>3. /\ groups \in Seq(F) /\ Range(groups) = Range(first) \cup Range(flat) \cup Range(two)
        /\ groups[1] = first[1] /\ Len(groups) >= 1
    <3>1. ThreeFrom(F, groups, first, flat, two) BY <1>8, <2>0, <2>1, <2>2 DEF ThreeFrom
    <3>. QED BY <3>1, ThreeParts
  <2>. QED BY <2>2, <2>3 DEF two
<1>10. Range(first) = {LogTasks!SecureElements, LogTasks!EnvElements, LogTasks!SysPropElements}
  <2>1. DOMAIN first = {1, 2, 3} OBVIOUS
  <2>2. \A x : x \in Range(first) <=> \E i \in {1, 2, 3} : x = first[i] BY <2>1 DEF Range
  <2>. QED BY <2>2
<1>11. Range(<<unmatched, standard>>) = {unmatched, standard}
  <2>1. DOMAIN <<unmatched, standard>> = {1, 2} OBVIOUS
  <2>2. \A x : x \in Range(<<unmatched, standard>>) <=> \E i \in {1, 2} : x = <<unmatched, standard>>[i]
    BY <2>1 DEF Range
  <2>. QED BY <2>2
<1>13. DOMAIN groups = 1..Len(groups) /\ Len(groups) \in Nat
  <2>. HIDE DEF F
  <2>. QED BY <1>9
<1>14. \A c \in LogTasks!Range(LogTasks!Configs) :
         LogTasks!Range(LogTasks!ConfigElements(c)) \subseteq Range(groups)
  <2>1. \A c \in Range(C) : Range(LogTasks!ConfigElements(c)) \subseteq E BY DEF Range
  <2>. HIDE DEF E
  <2>. QED BY <1>0, <1>6, <1>9, <2>1 DEF C
<1>15. \A g \in Range(groups) :
         \/ g \in {LogTasks!SecureElements, LogTasks!EnvElements, LogTasks!SysPropElements,
                   unmatched, standard}
         \/ \E c \in LogTasks!Range(LogTasks!Configs) :
              g \in LogTasks!Range(LogTasks!ConfigElements(c))
  <2>1. \A g \in E : \E c \in Range(C) : g \in Range(LogTasks!ConfigElements(c)) BY DEF Range
  <2>. HIDE DEF E
  <2>. QED BY <1>0, <1>6, <1>9, <1>10, <1>11, <2>1 DEF C
<1>16. LogTasks!SysPropElements \in Range(groups) BY <1>9, <1>10
<1>. QED BY <1>7, <1>9, <1>13, <1>14, <1>15, <1>16

\* A file whose user is asked: its element is marked as soon as it is kept back,
\* and keeps its path.
LEMMA SecureKept ==
  ASSUME NEW refused_
  PROVE  /\ \A e \in LogTasks!SecureElements : LogKind[e.path.name] = "secure"
         /\ \A e \in LogTasks!SecureElements :
              \E x \in LogTasks!AskedFor(LogTasks!SecureElements, refused_) : x.path = e.path
         /\ \A x \in LogTasks!AskedFor(LogTasks!SecureElements, refused_) :
              /\ \E e \in LogTasks!SecureElements : x.path = e.path
              /\ x.path \in refused_ => ~x.can
<1>1. \A e \in LogTasks!SecureElements : \E p :
        "path" \in DOMAIN e /\ "can" \in DOMAIN e /\ e.path = p /\ LogKind[p.name] = "secure"
  <2>1. \A p : /\ {"path", "can"} \subseteq DOMAIN [LogTasks!Split(p) EXCEPT !.secure = TRUE]
               /\ [LogTasks!Split(p) EXCEPT !.secure = TRUE].path = p
    BY DEF LogTasks!Split, LogTasks!Element
  <2>2. \A p \in LogTasks!FindFiles(LogTasks!OfKind({"secure"}), LogStandard) : LogKind[p.name] = "secure"
    BY DEF LogTasks!FindFiles, LogTasks!OfKind
  <2>. QED BY <2>1, <2>2 DEF LogTasks!SecureElements
<1>2. \A e \in LogTasks!SecureElements :
        LET x == IF e.path \in refused_ THEN [e EXCEPT !.can = FALSE] ELSE e
        IN  x.path = e.path /\ (x.path \in refused_ => ~x.can)
  BY <1>1
<1>3. LogTasks!AskedFor(LogTasks!SecureElements, refused_) =
        {IF e.path \in refused_ THEN [e EXCEPT !.can = FALSE] ELSE e : e \in LogTasks!SecureElements}
  BY DEF LogTasks!AskedFor
<1>4. \A e \in LogTasks!SecureElements : LogKind[e.path.name] = "secure" BY <1>1
<1>5. \A e \in LogTasks!SecureElements :
        \E x \in LogTasks!AskedFor(LogTasks!SecureElements, refused_) : x.path = e.path
  BY <1>2, <1>3
<1>6. \A x \in LogTasks!AskedFor(LogTasks!SecureElements, refused_) :
        /\ \E e \in LogTasks!SecureElements : x.path = e.path
        /\ x.path \in refused_ => ~x.can
  BY <1>2, <1>3
<1>. QED BY <1>4, <1>5, <1>6

\* Of the elements with one path the first is kept, and one is kept.
LEMMA FirstOfPath ==
  ASSUME NEW groups, DOMAIN groups = 1..Len(groups), Len(groups) \in Nat,
         NEW elements \in LogTasks!DedupeLogPaths(groups)
  PROVE  /\ \A e \in elements : \E i \in DOMAIN groups :
              e \in groups[i] /\ \A j \in 1..(i - 1) : \A x \in groups[j] : x.path # e.path
         /\ \A i \in DOMAIN groups : \A e \in groups[i] : \E x \in elements : x.path = e.path
<1>. DEFINE Earlier(i) == UNION {{e.path : e \in groups[j]} : j \in 1..(i - 1)}
            S == UNION {{e \in groups[i] : e.path \notin Earlier(i)} : i \in DOMAIN groups}
<1>1. elements \subseteq S /\ \A e \in S : Cardinality({x \in elements : x.path = e.path}) = 1
  BY DEF LogTasks!DedupeLogPaths, LogTasks!OnePer, LogTasks!Cardinality, Cardinality
<1>2. \A e \in elements : \E i \in DOMAIN groups :
        e \in groups[i] /\ \A j \in 1..(i - 1) : \A x \in groups[j] : x.path # e.path
  BY <1>1
<1>3. ASSUME NEW i \in DOMAIN groups, NEW e \in groups[i]
      PROVE  \E x \in elements : x.path = e.path
  <2>. DEFINE K == {k \in DOMAIN groups : \E x \in groups[k] : x.path = e.path}
  <2>1. K \subseteq Nat /\ K # {} OBVIOUS
  <2>2. PICK k \in K : \A l \in K : k <= l
    <3>. HIDE DEF K
    <3>. QED BY <2>1, Least
  <2>3. PICK x \in groups[k] : x.path = e.path OBVIOUS
  <2>4. x.path \notin Earlier(k)
    <3>1. \A j \in 1..(k - 1) : j \in DOMAIN groups /\ ~(k <= j) BY <2>1
    <3>2. \A j \in 1..(k - 1) : j \notin K
      <4>. HIDE DEF K
      <4>. QED BY <2>2, <3>1
    <3>3. \A j \in 1..(k - 1) : \A y \in groups[j] : y.path # e.path BY <3>1, <3>2
    <3>. HIDE DEF K
    <3>. QED BY <2>3, <3>3
  <2>5. x \in S BY <2>4
  <2>. HIDE DEF S
  <2>6. Cardinality({y \in elements : y.path = x.path}) = 1 BY <1>1, <2>5
  <2>7. {y \in elements : y.path = x.path} # {} 
    <3>. DEFINE same == {y \in elements : y.path = x.path}
    <3>1. Cardinality({}) = 0 BY FS_EmptySet
    <3>2. Cardinality(same) = 1 BY <2>6
    <3>. HIDE DEF same
    <3>3. 0 # 1 OBVIOUS
    <3>4. same # {} BY <3>1, <3>2, <3>3, Zenon
    <3>. QED BY <3>4 DEF same
  <2>. QED BY <2>3, <2>7
<1>. QED BY <1>2, <1>3

\* Copy returns r: a success when every element could be copied.
CopyEnds(elements, r) ==
  /\ LogTasks!Return("Copy", r) /\ r.status \in LogTasks!Status
  /\ r.status = "Success" => \A e \in elements : e.can /\ LogTasks!ValidatePath(e.path)

\* What is copied of the elements, and the status of Copy.
LEMMA ValidCopied ==
  ASSUME LogInv, NEW elements, LogTasks!CopyElements(elements)
  PROVE  /\ DOMAIN collected' = DOMAIN collected
         /\ collected'["Copy"] = {e.path : e \in {x \in elements : x.can /\ LogTasks!ValidatePath(x.path)}}
         /\ \E r : CopyEnds(elements, r)
<1>. DEFINE valid == {e \in elements : e.can /\ LogTasks!ValidatePath(e.path)}
<1>1. collected' = [collected EXCEPT !["Copy"] = {e.path : e \in valid}]
  BY DEF LogTasks!CopyElements
<1>2. DOMAIN collected = {"Copy", "Collect"} BY DEF LogInv, LogTyped
<1>3. PICK payload : LogTasks!Return("Copy",
        LogTasks!With(LogTasks!CopyStatus(valid, elements \ valid), payload))
  BY Zenon DEF LogTasks!CopyElements
<1>. DEFINE r == LogTasks!With(LogTasks!CopyStatus(valid, elements \ valid), payload)
<1>4. r.status = LogTasks!CopyStatus(valid, elements \ valid) BY DEF LogTasks!With
<1>5. r.status \in LogTasks!Status
  <2>. HIDE DEF valid, r
  <2>. QED BY <1>4 DEF LogTasks!CopyStatus, LogTasks!Status
<1>6. r.status = "Success" => elements \ valid = {}
  <2>. HIDE DEF valid, r
  <2>. QED BY <1>4 DEF LogTasks!CopyStatus
<1>7. collected'["Copy"] = {e.path : e \in valid} /\ DOMAIN collected' = DOMAIN collected
  <2>. HIDE DEF valid
  <2>. QED BY <1>1, <1>2
<1>8. r.status = "Success" => \A e \in elements : e.can /\ LogTasks!ValidatePath(e.path)
  <2>. HIDE DEF r
  <2>. QED BY <1>6
<1>. HIDE DEF r
<1>9. LogTasks!Return("Copy", r) BY <1>3 DEF r
<1>10. CopyEnds(elements, r) BY <1>5, <1>8, <1>9 DEF CopyEnds
<1>. QED BY <1>7, <1>10

\* With no directory and no name to complete, nothing is made of them.
LEMMA NothingUnmatched ==
  ASSUME LogTasks!UnmatchedDirs = {}, LogTasks!UnmatchedNames = {},
         NEW unmatched \in LogTasks!UnmatchedElements
  PROVE  unmatched = {}
<1>1. LogTasks!Combined = {} BY DEF LogTasks!Combined
<1>2. {LogTasks!FromDir(d) : d \in LogTasks!UnmatchedDirs} = {} OBVIOUS
<1>3. \A u \in LogTasks!Unions({}) : u = {} BY DEF LogTasks!Unions
<1>4. LogTasks!FindFiles(UNION {LogTasks!Matching(v) : v \in LogTasks!UnmatchedNames}, {LogCwd}) = {}
  BY DEF LogTasks!FindFiles
<1>5. PICK fromDirs \in LogTasks!Unions({}) : unmatched = {LogTasks!Split(p) : p \in fromDirs \cup {}}
  BY <1>1, <1>2, <1>4 DEF LogTasks!UnmatchedElements, LogTasks!CurrentDirOrNamePatterns
<1>. QED BY <1>3, <1>5

\* Of the standard locations the recent logs are taken, or a single one.
LEMMA RecentOrAlone ==
  ASSUME LogInv, NEW standard \in LogTasks!StandardElements
  PROVE  \/ \A e \in standard : ~(LogTasks!Days(e.path) >= 1 /\ LogTasks!Days(e.path) >= host.limit)
         \/ \E q : \A e \in standard : e.path = q
<1>. DEFINE logs == LogTasks!FindFiles(LogTasks!OfKind({"agent", "profiler"}), LogStandard)
<1>0. \A p : LogTasks!Split(p).path = p BY DEF LogTasks!Split, LogTasks!Element
<1>. DEFINE Taken(recent) ==
              IF recent # {} \/ logs = {} THEN {recent} ELSE LogTasks!SelectMostRecentOldLogs(logs)
<1>1. PICK taken : \E recent \in LogTasks!RecentFiles(logs) :
        standard = {LogTasks!Split(p) : p \in taken} /\ taken \in Taken(recent)
  <2>1. LogTasks!LogNames = LogTasks!OfKind({"agent", "profiler"}) BY DEF LogTasks!LogNames
  <2>2. logs = LogTasks!FindFiles(LogTasks!LogNames, LogStandard) BY <2>1
  <2>. HIDE DEF logs
  <2>3. PICK taken \in UNION {Taken(recent) : recent \in LogTasks!RecentFiles(logs)} :
          standard = {LogTasks!Split(p) : p \in taken}
    BY <2>2, Zenon DEF LogTasks!StandardElements
  <2>. HIDE DEF Taken
  <2>4. PICK recent \in LogTasks!RecentFiles(logs) : taken \in Taken(recent) OBVIOUS
  <2>. QED BY <2>3, <2>4
<1>0b. PICK recent \in LogTasks!RecentFiles(logs) :
         standard = {LogTasks!Split(p) : p \in taken} /\ taken \in Taken(recent)
  BY <1>1, Zenon
<1>2. logs \subseteq DOMAIN host.files BY DEF LogTasks!FindFiles
<1>3. \A p \in logs : LogTasks!Days(p) \in Nat /\ host.limit \in Nat
  <2>. HIDE DEF logs
  <2>1. host \in LogHost BY DEF LogInv, LogTyped
  <2>2. \A h \in LogHost : h.limit \in Nat /\ \A p \in DOMAIN h.files : h.files[p] \in LogTasks!File
    BY BaseTasksValues DEF BaseTasksAssumption, LogTasks!BaseLogAssumption
  <2>3. \A f \in LogTasks!File : f.days \in Nat BY DEF LogTasks!File
  <2>4. \A p \in logs : host.files[p] \in LogTasks!File BY <1>2, <2>1, <2>2
  <2>. QED BY <2>1, <2>2, <2>3, <2>4 DEF LogTasks!Days
<1>4. PICK before : recent = {p \in logs : LogTasks!Days(p) < IF p \in before THEN host.limit ELSE 1}
  BY DEF LogTasks!RecentFiles
<1>5. \A p \in recent : ~(LogTasks!Days(p) >= 1 /\ LogTasks!Days(p) >= host.limit)
  <2>. HIDE DEF logs
  <2>. QED BY <1>3, <1>4
<1>6. CASE recent # {} \/ logs = {}
  <2>1. taken = recent BY <1>0b, <1>6
  <2>. HIDE DEF logs
  <2>. QED BY <1>0, <1>0b, <1>5, <2>1
<1>7. CASE ~(recent # {} \/ logs = {})
  <2>1. PICK q : taken = {q} BY <1>0b, <1>7 DEF LogTasks!SelectMostRecentOldLogs
  <2>. HIDE DEF logs
  <2>. QED BY <1>0, <1>0b, <2>1
<1>. QED BY <1>6, <1>7

\* Copy returns: what it keeps is that every file it collects can be read, and
\* the three statements about its copies.
LEMMA CopyReturns ==
  ASSUME LogInv, "Copy" \notin DOMAIN results, LogTasks!Sources \subseteq DOMAIN results,
         NEW r, LogTasks!Return("Copy", r), r.status \in LogTasks!Status,
         UNCHANGED host, DOMAIN collected' = DOMAIN collected,
         \A p \in collected'["Copy"] : LogTasks!ValidatePath(p),
         LogTasks!DeclinedNotCopied', LogTasks!ConfiguredLogCopied', LogTasks!OldLogAlone'
  PROVE  LogInv'
<1>1. /\ process' = process /\ DOMAIN results' = DOMAIN results \cup {"Copy"} /\ results'["Copy"] = r
      /\ \A u \in DOMAIN results : u # "Copy" => results'[u] = results[u]
  BY LogReturn
<1>2. LogTyped'
  <2>1. \A p \in collected'["Copy"] : LogTasks!ValidatePath(p)'
    BY DEF LogTasks!ValidatePath, LogTasks!Exists, LogTasks!Real
  <2>2. DOMAIN results' \subseteq LogTasks!Tasks BY <1>1 DEF LogInv, LogTyped, LogTasks!Tasks
  <2>3. \A t \in DOMAIN results' : results'[t].status \in LogTasks!Status
    BY <1>1 DEF LogInv, LogTyped
  <2>. QED BY <1>1, <2>1, <2>2, <2>3
       DEF LogInv, LogTyped, LogTasks!ValidatePath, LogTasks!Exists, LogTasks!Real
<1>3. SettingsHandedOn' BY <1>1 DEF LogInv, SettingsHandedOn
<1>4. NothingBeforeCopy' BY <1>1 DEF NothingBeforeCopy
<1>. QED BY <1>2, <1>3, <1>4 DEF LogInv

\* What Copy collects of the groups it looked at, once the user was asked.
LEMMA GroupsCopied ==
  ASSUME LogInv, "Copy" \notin DOMAIN results, LogTasks!Sources \subseteq DOMAIN results,
         NEW groups \in LogTasks!CollectFilePaths,
         NEW refused_ \in SUBSET {e.path : e \in LogTasks!SecureElements},
         NEW elements \in LogTasks!DedupeLogPaths(
               [groups EXCEPT ![1] = LogTasks!AskedFor(@, refused_)]),
         LogTasks!CopyElements(elements),
         withheld' = withheld \cup refused_, UNCHANGED host, process = "running"
  PROVE  LogInv'
<1>. DEFINE gs == [groups EXCEPT ![1] = LogTasks!AskedFor(@, refused_)]
<1>1. /\ DOMAIN collected' = DOMAIN collected
      /\ collected'["Copy"] = {e.path : e \in {x \in elements : x.can /\ LogTasks!ValidatePath(x.path)}}
  BY ValidCopied
<1>2. PICK r : CopyEnds(elements, r) BY ValidCopied
<1>3. /\ process' = process /\ DOMAIN results' = DOMAIN results \cup {"Copy"} /\ results'["Copy"] = r
      /\ \A u \in DOMAIN results : u # "Copy" => results'[u] = results[u]
  BY <1>2, LogReturn DEF CopyEnds
<1>4. \A t \in LogTasks!Sources : t \in DOMAIN results /\ t \in DOMAIN results' /\ results'[t] = results[t]
  BY <1>3 DEF LogTasks!Sources
<1>5. withheld = {} BY DEF LogInv, NothingBeforeCopy
<1>6. /\ groups[1] = LogTasks!SecureElements
      /\ DOMAIN groups = 1..Len(groups) /\ Len(groups) \in Nat /\ Len(groups) >= 1
      /\ LogTasks!SysPropElements \in Range(groups)
      /\ \A c \in LogTasks!Range(LogTasks!Configs) :
           LogTasks!Range(LogTasks!ConfigElements(c)) \subseteq Range(groups)
  BY GroupsOfElements
<1>7. PICK unmatched \in LogTasks!UnmatchedElements, standard \in LogTasks!StandardElements :
        \A g \in Range(groups) :
          \/ g \in {LogTasks!SecureElements, LogTasks!EnvElements, LogTasks!SysPropElements,
                    unmatched, standard}
          \/ \E c \in LogTasks!Range(LogTasks!Configs) :
               g \in LogTasks!Range(LogTasks!ConfigElements(c))
  BY GroupsOfElements
<1>8. /\ DOMAIN gs = 1..Len(gs) /\ Len(gs) \in Nat /\ DOMAIN gs = DOMAIN groups
      /\ gs[1] = LogTasks!AskedFor(LogTasks!SecureElements, refused_)
      /\ \A i \in DOMAIN groups : i # 1 => gs[i] = groups[i]
  <2>1. 1 \in DOMAIN groups BY <1>6
  <2>. QED BY <1>6, <2>1
<1>. HIDE DEF gs
<1>9. /\ \A e \in elements : \E i \in DOMAIN gs :
            e \in gs[i] /\ \A j \in 1..(i - 1) : \A x \in gs[j] : x.path # e.path
      /\ \A i \in DOMAIN gs : \A e \in gs[i] : \E x \in elements : x.path = e.path
  <2>1. elements \in LogTasks!DedupeLogPaths(gs) BY DEF gs
  <2>2. DOMAIN gs = 1..Len(gs) /\ Len(gs) \in Nat BY <1>8
  <2>. QED BY <2>1, <2>2, FirstOfPath, Zenon
<1>10. /\ \A e \in LogTasks!SecureElements : LogKind[e.path.name] = "secure"
       /\ \A e \in groups[1] : \E x \in gs[1] : x.path = e.path
       /\ \A x \in gs[1] : (\E e \in groups[1] : x.path = e.path) /\ (x.path \in refused_ => ~x.can)
  BY <1>6, <1>8, SecureKept
<1>11. ASSUME NEW i \in DOMAIN groups, NEW e \in groups[i] PROVE \E x \in elements : x.path = e.path
  <2>1. PICK x \in gs[i] : x.path = e.path BY <1>8, <1>10
  <2>. QED BY <1>8, <1>9, <2>1
<1>12. ASSUME NEW e \in elements PROVE \E i \in DOMAIN groups : \E y \in groups[i] : e.path = y.path
  <2>1. PICK i \in DOMAIN gs : e \in gs[i] BY <1>9
  <2>. QED BY <1>8, <1>10, <2>1
<1>16. LogTasks!DeclinedNotCopied'
  <2>1. ASSUME NEW p \in refused_, p \in collected'["Copy"] PROVE FALSE
    <3>1. PICK e \in elements : e.can /\ e.path = p BY <1>1, <2>1
    <3>2. PICK i \in DOMAIN gs :
            e \in gs[i] /\ \A j \in 1..(i - 1) : \A x \in gs[j] : x.path # e.path
      BY <1>9
    <3>3. PICK s \in groups[1] : s.path = p BY <1>6, <2>1
    <3>4. PICK x \in gs[1] : x.path = p BY <1>10, <3>3
    <3>5. i = 1
      <4>1. i \in Nat /\ i >= 1 BY <1>8
      <4>2. 1 \notin 1..(i - 1) BY <3>1, <3>2, <3>4
      <4>. QED BY <4>1, <4>2
    <3>. QED BY <1>10, <2>1, <3>1, <3>2, <3>5
  <2>. QED BY <1>5, <2>1 DEF LogTasks!DeclinedNotCopied
<1>17. LogTasks!ConfiguredLogCopied'
  <2>1. SUFFICES ASSUME r.status = "Success",
                        NEW e \in LogTasks!SysPropElements \cup UNION {UNION LogTasks!Range(
                              LogTasks!ConfigElements(c)) : c \in LogTasks!Range(LogTasks!Configs)}
                 PROVE  e.path \in collected'["Copy"]
    BY <1>3, <1>4, SourcesKept DEF LogTasks!ConfiguredLogCopied
  <2>2. PICK g \in Range(groups) : e \in g BY <1>6
  <2>3. PICK i \in DOMAIN groups : e \in groups[i] BY <2>2 DEF Range
  <2>4. PICK x \in elements : x.path = e.path BY <1>11, <2>3
  <2>. QED BY <1>1, <1>2, <2>1, <2>4 DEF CopyEnds
<1>18. LogTasks!OldLogAlone'
  <2>. DEFINE named_ == {e.path : e \in LogTasks!EnvElements \cup LogTasks!SysPropElements} \cup
                        UNION {{e.path : e \in UNION LogTasks!Range(LogTasks!ConfigElements(c))} :
                                 c \in LogTasks!Range(LogTasks!Configs)}
              unnamed == {p \in collected'["Copy"] \ named_ : LogKind[p.name] # "secure"}
  <2>0. \A p : LogTasks!Days(p)' = LogTasks!Days(p) BY DEF LogTasks!Days
  <2>1. SUFFICES ASSUME LogTasks!UnmatchedDirs = {}, LogTasks!UnmatchedNames = {},
                        NEW p \in unnamed, LogTasks!Days(p) >= 1, LogTasks!Days(p) >= host.limit
                 PROVE  unnamed = {p}
    BY <1>4, <2>0, SourcesKept DEF LogTasks!OldLogAlone
  <2>2. unmatched = {} BY <2>1, NothingUnmatched
  <2>3. ASSUME NEW q \in unnamed PROVE \E e \in standard : e.path = q
    <3>1. PICK x \in elements : x.path = q BY <1>1
    <3>2. PICK i \in DOMAIN groups : \E y \in groups[i] : x.path = y.path BY <1>12
    <3>3. PICK y \in groups[i] : y.path = q BY <3>1, <3>2
    <3>4. groups[i] \in Range(groups) BY DEF Range
    <3>5. groups[i] # LogTasks!SecureElements BY <1>10, <3>3
    <3>0. q \notin named_ OBVIOUS
    <3>0b. \A e \in LogTasks!EnvElements \cup LogTasks!SysPropElements : e.path \in named_ OBVIOUS
    <3>0c. \A c \in LogTasks!Range(LogTasks!Configs) :
             \A g \in LogTasks!Range(LogTasks!ConfigElements(c)) : \A e \in g : e.path \in named_
      <4>1. SUFFICES ASSUME NEW c \in LogTasks!Range(LogTasks!Configs),
                            NEW g \in LogTasks!Range(LogTasks!ConfigElements(c)), NEW e \in g
                     PROVE  e.path \in named_
        OBVIOUS
      <4>2. e \in UNION LogTasks!Range(LogTasks!ConfigElements(c)) OBVIOUS
      <4>3. e.path \in {w.path : w \in UNION LogTasks!Range(LogTasks!ConfigElements(c))} BY <4>2
      <4>. QED BY <4>3
    <3>. HIDE DEF unnamed, named_
    <3>6. groups[i] # LogTasks!EnvElements /\ groups[i] # LogTasks!SysPropElements
      BY <3>0, <3>0b, <3>3
    <3>7. \A c \in LogTasks!Range(LogTasks!Configs) :
            groups[i] \notin LogTasks!Range(LogTasks!ConfigElements(c))
      BY <3>0, <3>0c, <3>3
    <3>. QED BY <1>7, <2>2, <3>3, <3>4, <3>5, <3>6, <3>7
  <2>. HIDE DEF unnamed
  <2>4. CASE \E q : \A e \in standard : e.path = q BY <2>3, <2>4
  <2>5. CASE \A e \in standard : ~(LogTasks!Days(e.path) >= 1 /\ LogTasks!Days(e.path) >= host.limit)
    BY <2>1, <2>3, <2>5
  <2>. QED BY <2>4, <2>5, RecentOrAlone
<1>19. \A p \in collected'["Copy"] : LogTasks!ValidatePath(p) BY <1>1
<1>20. LogTasks!Return("Copy", r) /\ r.status \in LogTasks!Status BY <1>2 DEF CopyEnds
<1>. QED BY <1>1, <1>16, <1>17, <1>18, <1>19, <1>20, CopyReturns

\* BaseLogCopy.
LEMMA LogCopyKept ==
  ASSUME LogInv, LogTasks!BaseLogCopy
  PROVE  LogInv'
<1>1. /\ "Copy" \notin DOMAIN results /\ LogTasks!Sources \subseteq DOMAIN results
      /\ process = "running" /\ UNCHANGED host
  BY DEF LogTasks!BaseLogCopy, LogTasks!Ready
<1>2. withheld = {} /\ collected["Copy"] = {} BY <1>1 DEF LogInv, NothingBeforeCopy
<1>3. CASE /\ host.logpath # LogEmpty
           /\ LogTasks!CopyElements({LogTasks!Split(host.logpath)})
           /\ UNCHANGED withheld
  <2>. DEFINE elements == {LogTasks!Split(host.logpath)}
  <2>. HIDE DEF elements
  <2>0. LogTasks!CopyElements(elements) BY <1>3 DEF elements
  <2>1. /\ DOMAIN collected' = DOMAIN collected
        /\ collected'["Copy"] = {e.path : e \in {x \in elements : x.can /\ LogTasks!ValidatePath(x.path)}}
    BY <2>0, ValidCopied
  <2>2. PICK r : CopyEnds(elements, r) BY <2>0, ValidCopied
  <2>3. \A p \in collected'["Copy"] : LogTasks!ValidatePath(p) BY <2>1
  <2>4. LogTasks!Return("Copy", r) /\ r.status \in LogTasks!Status BY <2>2 DEF CopyEnds
  <2>5. LogTasks!DeclinedNotCopied' BY <1>2, <1>3 DEF LogTasks!DeclinedNotCopied
  <2>6. LogTasks!ConfiguredLogCopied' /\ LogTasks!OldLogAlone'
    BY <1>1, <1>3 DEF LogTasks!ConfiguredLogCopied, LogTasks!OldLogAlone
  <2>. QED BY <1>1, <2>1, <2>3, <2>4, <2>5, <2>6, CopyReturns
<1>4. CASE LogTasks!Panic /\ UNCHANGED <<withheld, collected>>
  BY <1>1, <1>4, LogEnds DEF LogTasks!Panic
<1>5. ASSUME NEW groups \in LogTasks!CollectFilePaths,
             NEW refused_ \in SUBSET IF host.yes THEN {} ELSE {e.path : e \in LogTasks!SecureElements},
             withheld' = withheld \cup refused_,
             IF UNION LogTasks!Range(groups) = {}
             THEN LogTasks!Return("Copy", LogTasks!Verdict("Failure")) /\ UNCHANGED collected
             ELSE \E elements \in LogTasks!DedupeLogPaths(
                        [groups EXCEPT ![1] = LogTasks!AskedFor(@, refused_)]) :
                    LogTasks!CopyElements(elements)
      PROVE  LogInv'
  <2>1. CASE LogTasks!Return("Copy", LogTasks!Verdict("Failure")) /\ UNCHANGED collected
    <3>. DEFINE r == LogTasks!Verdict("Failure")
    <3>1. r.status = "Failure" BY DEF LogTasks!Verdict
    <3>. HIDE DEF r
    <3>2. LogTasks!Return("Copy", r) BY <2>1 DEF r
    <3>3. results'["Copy"] = r BY <3>2, LogReturn
    <3>4. LogTasks!DeclinedNotCopied' BY <1>2, <2>1 DEF LogTasks!DeclinedNotCopied
    <3>5. LogTasks!ConfiguredLogCopied' BY <3>1, <3>3 DEF LogTasks!ConfiguredLogCopied
    <3>6. LogTasks!OldLogAlone' BY <1>2, <2>1 DEF LogTasks!OldLogAlone
    <3>7. r.status \in LogTasks!Status BY <3>1 DEF LogTasks!Status
    <3>. QED BY <1>1, <1>2, <2>1, <3>2, <3>4, <3>5, <3>6, <3>7, CopyReturns
  <2>2. CASE \E elements \in LogTasks!DedupeLogPaths(
                  [groups EXCEPT ![1] = LogTasks!AskedFor(@, refused_)]) :
               LogTasks!CopyElements(elements)
    <3>1. refused_ \in SUBSET {e.path : e \in LogTasks!SecureElements} OBVIOUS
    <3>2. PICK elements \in LogTasks!DedupeLogPaths(
                 [groups EXCEPT ![1] = LogTasks!AskedFor(@, refused_)]) :
            LogTasks!CopyElements(elements)
      BY <2>2
    <3>. QED BY <1>1, <1>5, <3>1, <3>2, GroupsCopied, Zenon
  <2>. QED BY <1>5, <2>1, <2>2
<1>. QED BY <1>3, <1>4, <1>5, Zenon DEF LogTasks!BaseLogCopy

-----------------------------------------------------------------------------
(* The other tasks *)

\* GetShellEnvVars, GetNewRelicSystemProps and Validate, which Copy reads.
LEMMA LogSourceKept ==
  ASSUME LogInv,
         \/ LogTasks!GetShellEnvVars \/ LogTasks!GetNewRelicSystemProps \/ LogTasks!Validate
  PROVE  LogInv'
<1>0. /\ UNCHANGED <<host, withheld, collected>>
      /\ {"CollectEnvVars", "CollectSysProps", "Validate"} \subseteq LogTasks!Tasks
  BY DEF LogTasks!GetShellEnvVars, LogTasks!GetNewRelicSystemProps, LogTasks!Validate,
     LogTasks!Tasks, LogTasks!Sources
<1>a. \A s : LogTasks!Verdict(s).status = s /\ "payload" \notin DOMAIN LogTasks!Verdict(s)
  BY DEF LogTasks!Verdict
<1>b. \A s, p : LogTasks!With(s, p).status = s /\ LogTasks!With(s, p).payload = p
  BY DEF LogTasks!With
<1>c. {"None", "Success", "Error", "Info"} \subseteq LogTasks!Status BY DEF LogTasks!Status
<1>1. CASE LogTasks!GetShellEnvVars
  <2>1. PICK r : /\ LogTasks!Return("CollectEnvVars", r)
                 /\ r = LogTasks!With("Info", host.env) \/ r = LogTasks!Verdict("Error")
    BY <1>1 DEF LogTasks!GetShellEnvVars
  <2>2. "CollectEnvVars" \notin DOMAIN results BY <1>1 DEF LogTasks!GetShellEnvVars, LogTasks!Ready
  <2>3. r.status \in LogTasks!Status BY <1>a, <1>b, <1>c, <2>1
  <2>. QED BY <1>0, <2>1, <2>2, <2>3, LogOtherTask
<1>2. CASE LogTasks!GetNewRelicSystemProps
  <2>1. CASE LogTasks!Panic BY <1>0, <2>1, LogEnds DEF LogTasks!Panic
  <2>2. ASSUME NEW r, LogTasks!Return("CollectSysProps", r),
               \/ r = LogTasks!Verdict("None")
               \/ r = LogTasks!With("Info", LogTasks!Properties(host.java))
        PROVE  LogInv'
    <3>1. "CollectSysProps" \notin DOMAIN results
      BY <1>2 DEF LogTasks!GetNewRelicSystemProps, LogTasks!Ready
    <3>2. r.status \in LogTasks!Status BY <1>a, <1>b, <1>c, <2>2
    <3>. QED BY <1>0, <2>2, <3>1, <3>2, LogOtherTask
  <2>3. \/ LogTasks!Panic
        \/ LogTasks!Return("CollectSysProps", LogTasks!Verdict("None"))
        \/ LogTasks!Return("CollectSysProps", LogTasks!With("Info", LogTasks!Properties(host.java)))
    BY <1>2, Zenon DEF LogTasks!GetNewRelicSystemProps
  <2>. QED BY <2>1, <2>2, <2>3
<1>3. CASE LogTasks!Validate
  <2>1. PICK r : /\ LogTasks!Return("Validate", r)
                 /\ r = LogTasks!With("Success", host.configs) \/ r = LogTasks!Verdict("None")
    BY <1>3 DEF LogTasks!Validate
  <2>2. "Validate" \notin DOMAIN results BY <1>3 DEF LogTasks!Validate, LogTasks!Ready
  <2>3. r.status \in LogTasks!Status /\ ("payload" \in DOMAIN r => r.payload = host.configs)
    BY <1>a, <1>b, <1>c, <2>1
  <2>. QED BY <1>0, <2>1, <2>2, <2>3, LogOtherTask
<1>. QED BY <1>1, <1>2, <1>3

\* BaseLogCollect and BaseLogReportingTo, which leave the copies alone.
LEMMA LogReaderKept ==
  ASSUME LogInv, LogTasks!BaseLogCollect \/ LogTasks!BaseLogReportingTo
  PROVE  LogInv'
<1>a. \A s : LogTasks!Verdict(s).status = s BY DEF LogTasks!Verdict
<1>b. \A s, p : LogTasks!With(s, p).status = s BY DEF LogTasks!With
<1>c. {"None", "Success", "Failure"} \subseteq LogTasks!Status BY DEF LogTasks!Status
<1>1. CASE LogTasks!BaseLogCollect
  <2>1. "Collect" \notin DOMAIN results /\ UNCHANGED <<host, withheld>>
    BY <1>1 DEF LogTasks!BaseLogCollect, LogTasks!Ready
  <2>2. CASE LogTasks!Panic /\ UNCHANGED collected BY <2>1, <2>2, LogEnds DEF LogTasks!Panic
  <2>3. ASSUME NEW S, NEW p, NEW r, LogTasks!Return("Collect", r),
               r = LogTasks!Verdict("Failure") \/ r = LogTasks!With("Success", p),
               collected' = [collected EXCEPT !["Collect"] = S] \/ UNCHANGED collected
        PROVE  LogInv'
    <3>1. DOMAIN collected' = DOMAIN collected /\ collected'["Copy"] = collected["Copy"]
      BY <2>3 DEF LogInv, LogTyped
    <3>2. r.status \in LogTasks!Status BY <1>a, <1>b, <1>c, <2>3
    <3>3. "Collect" \in LogTasks!Tasks BY DEF LogTasks!Tasks
    <3>. QED BY <2>1, <2>3, <3>1, <3>2, <3>3, LogOtherTask
  <2>4. CASE LogTasks!Return("Collect", LogTasks!With("Success", {})) /\ UNCHANGED collected
    BY <2>3, <2>4
  <2>5. ASSUME NEW groups \in LogTasks!CollectFilePaths, NEW elements, NEW found,
               LogTasks!Return("Collect",
                 IF elements = {} THEN LogTasks!Verdict("Failure") ELSE LogTasks!With("Success", found)),
               collected' = [collected EXCEPT !["Collect"] = {e.path : e \in found}]
        PROVE  LogInv'
    BY <2>3, <2>5
  <2>. QED BY <1>1, <2>2, <2>4, <2>5, Zenon DEF LogTasks!BaseLogCollect
<1>2. CASE LogTasks!BaseLogReportingTo
  <2>1. "ReportingTo" \notin DOMAIN results /\ UNCHANGED <<host, withheld, collected>>
    BY <1>2 DEF LogTasks!BaseLogReportingTo, LogTasks!Ready
  <2>2. PICK r, p : /\ LogTasks!Return("ReportingTo", r)
                    /\ r = LogTasks!Verdict("None") \/ r = LogTasks!With("Success", p)
    BY <1>2 DEF LogTasks!BaseLogReportingTo
  <2>3. r.status \in LogTasks!Status BY <1>a, <1>b, <1>c, <2>2
  <2>4. "ReportingTo" \in LogTasks!Tasks BY DEF LogTasks!Tasks
  <2>. QED BY <2>1, <2>2, <2>3, <2>4, LogOtherTask
<1>. QED BY <1>1, <1>2

\* A stutter, and the end.
LEMMA LogStutters ==
  ASSUME LogInv, UNCHANGED <<host, withheld, collected, results, process>>
  PROVE  LogInv'
<1>1. process \in {"running", "panicked"} BY DEF LogInv, LogTyped
<1>. QED BY <1>1, LogEnds

\* Every step of the tasks of base/log.
LEMMA LogKept ==
  ASSUME LogInv, LogTasks!Next
  PROVE  LogInv'
<1>1. CASE LogTasks!Done BY <1>1, LogStutters DEF LogTasks!Done, LogTasks!vars
<1>. QED BY <1>1, LogSourceKept, LogCopyKept, LogReaderKept DEF LogTasks!Next

\* The invariant holds at the start.
LEMMA LogStarts ==
  ASSUME LogTasks!Init
  PROVE  LogInv
<1>1. /\ host \in LogHost /\ withheld = {} /\ collected = [t \in {"Copy", "Collect"} |-> {}]
      /\ DOMAIN results = {} /\ process = "running"
  BY DEF LogTasks!Init, LogTasks!NothingRun
<1>2. collected["Copy"] = {} /\ DOMAIN collected = {"Copy", "Collect"} BY <1>1
<1>3. LogTasks!DeclinedNotCopied BY <1>1 DEF LogTasks!DeclinedNotCopied
<1>4. LogTasks!ConfiguredLogCopied BY <1>1 DEF LogTasks!ConfiguredLogCopied, LogTasks!Ran
<1>5. LogTasks!OldLogAlone BY <1>2 DEF LogTasks!OldLogAlone
<1>. QED BY <1>1, <1>2, <1>3, <1>4, <1>5 DEF LogInv, LogTyped, SettingsHandedOn, NothingBeforeCopy

\* The type invariant of the module, in its own terms.
LEMMA LogStatements ==
  ASSUME LogInv
  PROVE  LogTasks!TypeOK
BY DEF LogInv, LogTyped, LogTasks!TypeOK, LogTasks!ValidatePath

-----------------------------------------------------------------------------
(***************************************************************************)
(* base/env: what is known of the host                                     *)
(***************************************************************************)

\* How the results grow when a task of base/env returns r.
LEMMA EnvReturn ==
  ASSUME NEW t, NEW r, EnvTasks!Return(t, r)
  PROVE  /\ process' = process
         /\ DOMAIN results' = DOMAIN results \cup {t}
         /\ results'[t] = r
         /\ \A u \in DOMAIN results : u # t => results'[u] = results[u]
BY DEF EnvTasks!Return

\* The identifiers of the tasks of base/env that are read by others.
EnvNames ==
  /\ EnvTasks!HostInfo = "Base/Env/HostInfo"
  /\ EnvTasks!Admin = "Base/Env/CheckWindowsAdmin"
  /\ EnvTasks!Root = "Base/Env/RootUser"
  /\ EnvTasks!NodeOS = "Node/Env/OsCheck"

\* They are what the module says.
LEMMA EnvNamesHold == EnvNames
BY DEF EnvNames, EnvTasks!HostInfo, EnvTasks!Admin, EnvTasks!Root, EnvTasks!NodeOS

\* What HostInfo hands on: the parts known in time, and Info when these are all.
HostInfoComplete ==
  "Base/Env/HostInfo" \in DOMAIN results =>
    \E parts \in EnvTasks!Collected :
      results["Base/Env/HostInfo"] =
        EnvTasks!With(IF parts = EnvTasks!Parts THEN "Info" ELSE "Warning",
                      EnvTasks!PopulateHostInfo(parts))

\* A failure of OsCheck is about a host that is known.
FailureIsKnown ==
  "Node/Env/OsCheck" \in DOMAIN results =>
    /\ "Base/Env/HostInfo" \in DOMAIN results
    /\ results["Node/Env/OsCheck"].status = "Failure" =>
         "host" \in results["Base/Env/HostInfo"].payload.parts

\* CheckWindowsAdmin warns of a user without rights only.
DenialHasCause ==
  "Base/Env/CheckWindowsAdmin" \in DOMAIN results
    /\ results["Base/Env/CheckWindowsAdmin"].status = "Warning" =>
    ~host.drive /\ host.login # "admin" /\ host.users # {"of Administrator"}

\* The host is among those of the constants, every result has a status.
EnvTyped ==
  /\ host \in EnvHost /\ process \in {"running", "panicked"}
  /\ DOMAIN results \subseteq EnvTasks!Tasks
  /\ \A t \in DOMAIN results : results[t].status \in EnvTasks!Status

\* The inductive invariant of base/env.
EnvInv ==
  /\ EnvTyped
  /\ HostInfoComplete
  /\ FailureIsKnown
  /\ DenialHasCause
  /\ EnvTasks!PanicHasCause

\* What the invariant says of HostInfo, in the terms of the statements.
LEMMA HostInfoHolds ==
  ASSUME HostInfoComplete, "Base/Env/HostInfo" \in DOMAIN results
  PROVE  LET r == results["Base/Env/HostInfo"]
         IN  /\ "payload" \in DOMAIN r
             /\ r.payload.known <=> "host" \in r.payload.parts
             /\ r.payload.os = host.os
             /\ {p \in EnvTasks!Parts \ host.broken : EnvTasks!InTime(p)} \subseteq r.payload.parts
             /\ r.status = "Info" <=> r.payload.parts = EnvTasks!Parts
<1>1. PICK parts \in EnvTasks!Collected :
        results["Base/Env/HostInfo"] =
          EnvTasks!With(IF parts = EnvTasks!Parts THEN "Info" ELSE "Warning",
                        EnvTasks!PopulateHostInfo(parts))
  BY DEF HostInfoComplete
<1>2. {p \in EnvTasks!Parts \ host.broken : EnvTasks!InTime(p)} \subseteq parts
  BY DEF EnvTasks!Collected
<1>3. EnvTasks!PopulateHostInfo(parts) =
        [os |-> host.os, known |-> "host" \in parts, parts |-> parts]
  BY DEF EnvTasks!PopulateHostInfo
<1>. DEFINE r == results["Base/Env/HostInfo"]
<1>4. /\ DOMAIN r = {"status", "payload"}
      /\ r.status = IF parts = EnvTasks!Parts THEN "Info" ELSE "Warning"
      /\ r.payload = [os |-> host.os, known |-> "host" \in parts, parts |-> parts]
  BY <1>1, <1>3 DEF EnvTasks!With
<1>. HIDE DEF r
<1>5. r.payload.os = host.os /\ r.payload.known = ("host" \in parts) /\ r.payload.parts = parts
  BY <1>4
<1>6. "payload" \in DOMAIN r /\ (r.status = "Info" <=> r.payload.parts = EnvTasks!Parts)
  BY <1>4, <1>5
<1>7. r.payload.known <=> "host" \in r.payload.parts BY <1>5
<1>. QED BY <1>2, <1>5, <1>6, <1>7 DEF r

\* A task other than those the invariant looks at keeps it.
LEMMA EnvOtherTask ==
  ASSUME EnvInv, NEW t \in EnvTasks!Tasks, NEW r, EnvTasks!Return(t, r), t \notin DOMAIN results,
         r.status \in EnvTasks!Status, UNCHANGED host,
         t \notin {"Base/Env/HostInfo", "Node/Env/OsCheck"},
         t = "Base/Env/CheckWindowsAdmin" /\ r.status = "Warning" =>
           ~host.drive /\ host.login # "admin" /\ host.users # {"of Administrator"}
  PROVE  EnvInv'
<1>1. /\ process' = process
      /\ DOMAIN results' = DOMAIN results \cup {t}
      /\ results'[t] = r
      /\ \A u \in DOMAIN results : u # t => results'[u] = results[u]
  BY EnvReturn
<1>2. EnvTyped' BY <1>1 DEF EnvInv, EnvTyped, EnvTasks!Tasks, EnvTasks!HostInfo, EnvTasks!Admin, EnvTasks!Root
<1>3. HostInfoComplete'
  BY <1>1 DEF EnvInv, HostInfoComplete, EnvTasks!Collected, EnvTasks!InTime, EnvTasks!Timeout, EnvTasks!PopulateHostInfo
<1>4. FailureIsKnown' BY <1>1 DEF EnvInv, FailureIsKnown
<1>5. DenialHasCause' BY <1>1 DEF EnvInv, DenialHasCause
<1>6. EnvTasks!PanicHasCause'
  BY <1>1 DEF EnvInv, EnvTasks!PanicHasCause, EnvTasks!FindCaseInsensitive
<1>. QED BY <1>2, <1>3, <1>4, <1>5, <1>6 DEF EnvInv

\* A panic leaves the results alone; it must have its cause.
LEMMA EnvPanics ==
  ASSUME EnvInv, EnvTasks!Panic, UNCHANGED host,
         IF host.os = "windows" THEN ~host.drive /\ "no pattern" \in EnvTasks!FindCaseInsensitive
         ELSE host.current = Failed
  PROVE  EnvInv'
<1>1. process' = "panicked" /\ results' = results BY DEF EnvTasks!Panic
<1>2. EnvTyped' BY <1>1 DEF EnvInv, EnvTyped, EnvTasks!Tasks
<1>3. HostInfoComplete'
  BY <1>1 DEF EnvInv, HostInfoComplete, EnvTasks!Collected, EnvTasks!InTime, EnvTasks!Timeout, EnvTasks!PopulateHostInfo
<1>4. FailureIsKnown' /\ DenialHasCause' BY <1>1 DEF EnvInv, FailureIsKnown, DenialHasCause
<1>5. EnvTasks!PanicHasCause'
  BY <1>1 DEF EnvTasks!PanicHasCause, EnvTasks!FindCaseInsensitive
<1>. QED BY <1>2, <1>3, <1>4, <1>5 DEF EnvInv

\* A task whose result is only a verdict.
LEMMA EnvAnswers ==
  ASSUME EnvInv, NEW t, NEW s \in EnvTasks!Status, EnvTasks!Answers(t, s),
         t \notin {"Base/Env/HostInfo", "Node/Env/OsCheck", "Base/Env/CheckWindowsAdmin"}
  PROVE  EnvInv'
<1>1. /\ t \in EnvTasks!Tasks /\ t \notin DOMAIN results
      /\ EnvTasks!Return(t, EnvTasks!Verdict(s)) /\ UNCHANGED host
  BY DEF EnvTasks!Answers, EnvTasks!Chosen, EnvTasks!Ready
<1>2. EnvTasks!Verdict(s).status \in EnvTasks!Status BY DEF EnvTasks!Verdict
<1>. QED BY <1>1, <1>2, EnvOtherTask

\* BaseEnvHostInfo.
LEMMA HostInfoStep ==
  ASSUME EnvInv, EnvTasks!BaseEnvHostInfo
  PROVE  EnvInv'
<1>. DEFINE t == "Base/Env/HostInfo"
<1>1. /\ t \in EnvTasks!Tasks /\ t \notin DOMAIN results /\ UNCHANGED host
  BY EnvNamesHold DEF EnvNames, EnvTasks!BaseEnvHostInfo, EnvTasks!Chosen, EnvTasks!Ready
<1>2. PICK parts \in EnvTasks!Collected :
        EnvTasks!Return(t, EnvTasks!With(IF parts = EnvTasks!Parts THEN "Info" ELSE "Warning",
                                         EnvTasks!PopulateHostInfo(parts)))
  BY EnvNamesHold DEF EnvNames, EnvTasks!BaseEnvHostInfo, EnvTasks!NewHostInfo
<1>. DEFINE r == EnvTasks!With(IF parts = EnvTasks!Parts THEN "Info" ELSE "Warning",
                               EnvTasks!PopulateHostInfo(parts))
<1>3. r.status \in EnvTasks!Status BY DEF EnvTasks!With, EnvTasks!Status
<1>4. /\ process' = process
      /\ DOMAIN results' = DOMAIN results \cup {t}
      /\ results'[t] = r
      /\ \A u \in DOMAIN results : u # t => results'[u] = results[u]
  <2>. HIDE DEF r
  <2>1. EnvTasks!Return(t, r) BY <1>2 DEF r
  <2>. QED BY <2>1, EnvReturn
<1>5. EnvTyped'
  <2>. HIDE DEF r
  <2>1. EnvTasks!Tasks' = EnvTasks!Tasks BY <1>1 DEF EnvTasks!Tasks
  <2>2. host' \in EnvHost /\ process' \in {"running", "panicked"} /\ DOMAIN results' \subseteq EnvTasks!Tasks
    BY <1>1, <1>4 DEF EnvInv, EnvTyped
  <2>3. \A u \in DOMAIN results' : results'[u].status \in EnvTasks!Status
    BY <1>3, <1>4 DEF EnvInv, EnvTyped
  <2>. QED BY <2>1, <2>2, <2>3 DEF EnvTyped
<1>6. HostInfoComplete'
  <2>1. EnvTasks!Collected' = EnvTasks!Collected
    BY <1>1 DEF EnvTasks!Collected, EnvTasks!InTime, EnvTasks!Timeout
  <2>2. EnvTasks!PopulateHostInfo(parts)' = EnvTasks!PopulateHostInfo(parts)
    BY <1>1 DEF EnvTasks!PopulateHostInfo
  <2>. QED BY <1>4, <2>1, <2>2 DEF HostInfoComplete, EnvTasks!PopulateHostInfo
<1>. HIDE DEF r
<1>7. FailureIsKnown'
  BY <1>1, <1>4 DEF EnvInv, FailureIsKnown
<1>8. DenialHasCause' BY <1>1, <1>4 DEF EnvInv, DenialHasCause
<1>9. EnvTasks!PanicHasCause'
  BY <1>1, <1>4 DEF EnvInv, EnvTasks!PanicHasCause, EnvTasks!FindCaseInsensitive
<1>. QED BY <1>5, <1>6, <1>7, <1>8, <1>9 DEF EnvInv

\* OsCheck reads what HostInfo handed on, which is always there.
LEMMA OsCheckStep ==
  ASSUME EnvInv, EnvTasks!NodeEnvOsCheck
  PROVE  EnvInv'
<1>. DEFINE t == "Node/Env/OsCheck"
            up == EnvTasks!Upstream("Base/Env/HostInfo")
            s == IF host.nodeAgent THEN EnvTasks!NodeSupport(up.payload) ELSE "None"
<1>1. /\ t \in EnvTasks!Tasks /\ t \notin DOMAIN results /\ UNCHANGED host
      /\ "Base/Env/HostInfo" \in DOMAIN results
  BY EnvNamesHold DEF EnvNames, EnvTasks!NodeEnvOsCheck, EnvTasks!Chosen, EnvTasks!Ready
<1>2. up = results["Base/Env/HostInfo"] BY <1>1 DEF EnvTasks!Upstream
<1>3. /\ "payload" \in DOMAIN up
      /\ up.payload.known <=> "host" \in up.payload.parts
      /\ up.payload.os = host.os
  BY <1>1, <1>2, HostInfoHolds DEF EnvInv
<1>4. EnvTasks!Return(t, EnvTasks!Verdict(s))
  BY <1>3, EnvNamesHold DEF EnvNames, EnvTasks!NodeEnvOsCheck, EnvTasks!Holds
<1>5. s \in EnvTasks!Status
  BY DEF EnvTasks!NodeSupport, EnvTasks!Status
<1>6. host.os \in {"linux", "windows", "darwin"}
  BY BaseTasksValues DEF EnvInv, EnvTyped, BaseTasksAssumption, EnvTasks!HostEnvironmentAssumption
<1>7. s = "Failure" => "host" \in up.payload.parts
  BY <1>3, <1>6 DEF EnvTasks!NodeSupport
<1>. HIDE DEF s
<1>8. /\ process' = process
      /\ DOMAIN results' = DOMAIN results \cup {t}
      /\ results'[t] = EnvTasks!Verdict(s)
      /\ \A u \in DOMAIN results : u # t => results'[u] = results[u]
  BY <1>4, EnvReturn
<1>9. EnvTasks!Verdict(s).status = s BY DEF EnvTasks!Verdict
<1>10. EnvTyped'
  <2>1. EnvTasks!Tasks' = EnvTasks!Tasks BY <1>1 DEF EnvTasks!Tasks
  <2>. QED BY <1>1, <1>5, <1>8, <1>9, <2>1 DEF EnvInv, EnvTyped
<1>11. HostInfoComplete'
  BY <1>1, <1>8 DEF EnvInv, HostInfoComplete, EnvTasks!Collected, EnvTasks!InTime,
                    EnvTasks!Timeout, EnvTasks!PopulateHostInfo
<1>12. FailureIsKnown' BY <1>1, <1>2, <1>7, <1>8, <1>9 DEF FailureIsKnown
<1>13. DenialHasCause' BY <1>1, <1>8 DEF EnvInv, DenialHasCause
<1>14. EnvTasks!PanicHasCause'
  BY <1>1, <1>8 DEF EnvInv, EnvTasks!PanicHasCause, EnvTasks!FindCaseInsensitive
<1>. QED BY <1>10, <1>11, <1>12, <1>13, <1>14 DEF EnvInv

\* CheckWindowsAdmin says that there are no elevated permissions only when no way
\* to find out told of them.
LEMMA AdminStep ==
  ASSUME EnvInv, EnvTasks!BaseEnvCheckWindowsAdmin
  PROVE  EnvInv'
<1>. DEFINE t == "Base/Env/CheckWindowsAdmin"
            loggedIn == EnvTasks!Verdict(IF host.login = "admin" THEN "Success" ELSE "Warning")
            yes == EnvTasks!Verdict("Success")
<1>1. /\ t \in EnvTasks!Tasks /\ t \notin DOMAIN results /\ UNCHANGED host
  BY EnvNamesHold DEF EnvNames, EnvTasks!BaseEnvCheckWindowsAdmin, EnvTasks!Chosen, EnvTasks!Ready
<1>2. Failed # {"of Administrator"} /\ host.os \in {"linux", "windows", "darwin"}
  BY BaseTasksValues DEF EnvInv, EnvTyped, BaseTasksAssumption, EnvTasks!HostEnvironmentAssumption
<1>3. host.os = "windows"
  BY <1>1 DEF EnvTasks!Tasks, EnvTasks!HostInfo, EnvTasks!AWS, EnvTasks!Azure,
    EnvTasks!InitSystem, EnvTasks!NodeOS, EnvTasks!Root, EnvTasks!SELinux
<1>4. /\ yes.status = "Success" /\ "Success" \in EnvTasks!Status
      /\ loggedIn.status = IF host.login = "admin" THEN "Success" ELSE "Warning"
      /\ loggedIn.status \in EnvTasks!Status
  BY DEF EnvTasks!Verdict, EnvTasks!Status
<1>5. \/ EnvTasks!Return(t, yes)
      \/ ~host.drive /\ host.users = Failed /\ EnvTasks!Return(t, loggedIn)
      \/ ~host.drive /\ "no pattern" \in EnvTasks!FindCaseInsensitive /\ EnvTasks!Panic
      \/ ~host.drive /\ EnvTasks!Return(t, loggedIn)
           /\ \E u \in EnvTasks!FindCaseInsensitive : u # "of Administrator"
  BY EnvNamesHold DEF EnvNames, EnvTasks!BaseEnvCheckWindowsAdmin
<1>. HIDE DEF loggedIn, yes
<1>6. CASE EnvTasks!Return(t, yes)
  BY <1>1, <1>4, <1>6, EnvOtherTask
<1>7. CASE ~host.drive /\ host.users = Failed /\ EnvTasks!Return(t, loggedIn)
  <2>1. loggedIn.status = "Warning" => ~host.drive /\ host.login # "admin" /\ host.users # {"of Administrator"}
    BY <1>2, <1>4, <1>7
  <2>. QED BY <1>1, <1>4, <1>7, <2>1, EnvOtherTask
<1>8. CASE ~host.drive /\ "no pattern" \in EnvTasks!FindCaseInsensitive /\ EnvTasks!Panic
  BY <1>1, <1>3, <1>8, EnvPanics
<1>9. CASE ~host.drive /\ EnvTasks!Return(t, loggedIn)
             /\ \E u \in EnvTasks!FindCaseInsensitive : u # "of Administrator"
  <2>1. host.users # {"of Administrator"} BY <1>9 DEF EnvTasks!FindCaseInsensitive
  <2>2. loggedIn.status = "Warning" => ~host.drive /\ host.login # "admin" /\ host.users # {"of Administrator"}
    BY <1>4, <1>9, <2>1
  <2>. QED BY <1>1, <1>4, <1>9, <2>2, EnvOtherTask
<1>. QED BY <1>5, <1>6, <1>7, <1>8, <1>9

\* RootUser panics only where the user is not known.
LEMMA RootStep ==
  ASSUME EnvInv, EnvTasks!BaseEnvRootUser
  PROVE  EnvInv'
<1>. DEFINE t == "Base/Env/RootUser"
            s == IF host.current = "root" THEN "Success" ELSE "Warning"
<1>1. /\ t \in EnvTasks!Tasks /\ t \notin DOMAIN results /\ UNCHANGED host
  BY EnvNamesHold DEF EnvNames, EnvTasks!BaseEnvRootUser, EnvTasks!Chosen, EnvTasks!Ready
<1>2. host.os # "windows"
  BY <1>1 DEF EnvTasks!Tasks, EnvTasks!HostInfo, EnvTasks!AWS, EnvTasks!Azure,
    EnvTasks!InitSystem, EnvTasks!NodeOS, EnvTasks!Admin, EnvTasks!IIS, EnvTasks!SELinux
<1>3. CASE host.current = Failed /\ EnvTasks!Panic
  BY <1>1, <1>2, <1>3, EnvPanics
<1>4. CASE EnvTasks!Return(t, EnvTasks!Verdict(s))
  <2>1. EnvTasks!Verdict(s).status \in EnvTasks!Status BY DEF EnvTasks!Verdict, EnvTasks!Status
  <2>. HIDE DEF s
  <2>. QED BY <1>1, <1>4, <2>1, EnvOtherTask
<1>5. (host.current = Failed /\ EnvTasks!Panic) \/ EnvTasks!Return(t, EnvTasks!Verdict(s))
  BY EnvNamesHold DEF EnvNames, EnvTasks!BaseEnvRootUser
<1>. QED BY <1>3, <1>4, <1>5

\* A stutter, and the end.
LEMMA EnvStutters ==
  ASSUME EnvInv, UNCHANGED <<host, results, process>>
  PROVE  EnvInv'
BY DEF EnvInv, EnvTyped, HostInfoComplete, FailureIsKnown, DenialHasCause, EnvTasks!PanicHasCause,
       EnvTasks!Tasks, EnvTasks!Collected, EnvTasks!InTime, EnvTasks!Timeout,
       EnvTasks!PopulateHostInfo, EnvTasks!FindCaseInsensitive

\* Every step of the tasks of base/env keeps the invariant,
LEMMA EnvKept ==
  ASSUME EnvInv, EnvTasks!Next
  PROVE  EnvInv'
<1>0. {"None", "Success", "Warning", "Error", "Info"} \subseteq EnvTasks!Status BY DEF EnvTasks!Status
<1>1. CASE EnvTasks!BaseEnvHostInfo BY <1>1, HostInfoStep
<1>2. CASE EnvTasks!NodeEnvOsCheck BY <1>2, OsCheckStep
<1>3. CASE EnvTasks!BaseEnvCheckWindowsAdmin BY <1>3, AdminStep
<1>4. CASE EnvTasks!BaseEnvRootUser BY <1>4, RootStep
<1>5. CASE EnvTasks!BaseEnvDetectAWS
  BY <1>0, <1>5, EnvAnswers DEF EnvTasks!BaseEnvDetectAWS, EnvTasks!AWS
<1>6. CASE EnvTasks!BaseEnvDetectAzure
  BY <1>0, <1>6, EnvAnswers DEF EnvTasks!BaseEnvDetectAzure, EnvTasks!Azure
<1>7. CASE EnvTasks!BaseEnvInitSystem
  BY <1>0, <1>7, EnvAnswers DEF EnvTasks!BaseEnvInitSystem, EnvTasks!InitSystem
<1>8. CASE EnvTasks!BaseEnvCheckSELinux
  <2>1. \E s \in EnvTasks!Status : EnvTasks!Answers("Base/Env/SELinux", s)
    BY <1>0, <1>8 DEF EnvTasks!BaseEnvCheckSELinux, EnvTasks!SELinux
  <2>. QED BY <2>1, EnvAnswers
<1>9. CASE EnvTasks!BaseEnvIisCheck
  <2>1. \E s \in EnvTasks!Status : EnvTasks!Answers("Base/Env/IisCheck", s)
    BY <1>0, <1>9 DEF EnvTasks!BaseEnvIisCheck, EnvTasks!IIS
  <2>. QED BY <2>1, EnvAnswers
<1>10. CASE EnvTasks!Ended BY <1>10, EnvStutters DEF EnvTasks!Ended, EnvTasks!vars
<1>. QED BY <1>1, <1>2, <1>3, <1>4, <1>5, <1>6, <1>7, <1>8, <1>9, <1>10 DEF EnvTasks!Next

\* which holds at the start.
LEMMA EnvStarts ==
  ASSUME EnvTasks!Init
  PROVE  EnvInv
BY DEF EnvTasks!Init, EnvTasks!NothingRun, EnvInv, EnvTyped, HostInfoComplete, FailureIsKnown,
       DenialHasCause, EnvTasks!PanicHasCause

\* What the invariant says in the terms of the module.
LEMMA EnvStatements ==
  ASSUME EnvInv
  PROVE  /\ EnvTasks!PartialInfoKept /\ EnvTasks!UnknownIsNoFailure
         /\ EnvTasks!ElevatedNotDenied /\ EnvTasks!PanicHasCause /\ EnvTasks!TypeOK
<1>0. EnvNames BY EnvNamesHold
<1>1. EnvTasks!PartialInfoKept
  BY <1>0, HostInfoHolds DEF EnvInv, EnvNames, EnvTasks!PartialInfoKept, EnvTasks!Upstream, EnvTasks!Holds
<1>2. EnvTasks!UnknownIsNoFailure
  BY <1>0 DEF EnvInv, FailureIsKnown, EnvNames, EnvTasks!UnknownIsNoFailure, EnvTasks!Upstream, EnvTasks!Verdict
<1>3. EnvTasks!ElevatedNotDenied
  BY <1>0 DEF EnvInv, DenialHasCause, EnvNames, EnvTasks!ElevatedNotDenied, EnvTasks!Upstream, EnvTasks!Verdict
<1>4. EnvTasks!TypeOK
  BY <1>0, HostInfoHolds DEF EnvInv, EnvTyped, EnvNames, EnvTasks!TypeOK, EnvTasks!Upstream, EnvTasks!Holds
<1>. QED BY <1>1, <1>2, <1>3, <1>4 DEF EnvInv

-----------------------------------------------------------------------------
(***************************************************************************)
(* The themes                                                              *)
(***************************************************************************)

\* Each family keeps its invariant; the others are not run.
BaseInv ==
  /\ Of("config") => ConfigInv
  /\ Of("log") => LogInv
  /\ Of("env") => EnvInv

\* The family, and with it the invariant that counts, is chosen at the start.
LEMMA BaseStarts == BaseInit => BaseInv
<1>1. ASSUME Of("config"), ConfigTasks!Init PROVE BaseInv
  BY <1>1, ConfigStarts DEF BaseInv, Of
<1>2. ASSUME Of("log"), LogTasks!Init PROVE BaseInv
  BY <1>2, LogStarts DEF BaseInv, Of
<1>3. ASSUME Of("env"), EnvTasks!Init PROVE BaseInv
  BY <1>3, EnvStarts DEF BaseInv, Of
<1>. QED BY <1>1, <1>2, <1>3 DEF BaseInit

\* Every step of the family that is run keeps its invariant.
LEMMA BaseKept == BaseInv /\ [BaseNext]_baseVars => BaseInv'
<1>. SUFFICES ASSUME BaseInv, [BaseNext]_baseVars PROVE BaseInv' OBVIOUS
<1>1. CASE UNCHANGED baseVars
  <2>1. /\ UNCHANGED <<family, host, results, process>>
        /\ UNCHANGED <<disk, refused, named>> /\ UNCHANGED <<withheld, collected>>
    BY <1>1 DEF baseVars, ConfigVars, LogVars
  <2>2. ConfigInv => ConfigInv' BY <2>1, ConfigStutters
  <2>3. LogInv => LogInv' BY <2>1, LogStutters
  <2>4. EnvInv => EnvInv' BY <2>1, EnvStutters
  <2>. QED BY <2>1, <2>2, <2>3, <2>4 DEF BaseInv, Of
<1>2. CASE BaseNext
  <2>1. family' = family BY <1>2 DEF BaseNext
  <2>2. CASE Of("config") /\ ConfigTasks!Next
    BY <2>1, <2>2, ConfigKept DEF BaseInv, Of
  <2>3. CASE Of("log") /\ LogTasks!Next
    BY <2>1, <2>3, LogKept DEF BaseInv, Of
  <2>4. CASE Of("env") /\ EnvTasks!Next
    BY <2>1, <2>4, EnvKept DEF BaseInv, Of
  <2>. QED BY <1>2, <2>2, <2>3, <2>4 DEF BaseNext
<1>. QED BY <1>1, <1>2

\* The invariant holds in every state.
THEOREM BaseInvariant == BaseSpec => []BaseInv
BY BaseStarts, BaseKept, PTL DEF BaseSpec

\* However the tasks are ordered, files change between them and the user answers:
\* what is collected is what was asked for, each file once, nothing that was
\* refused or kept back, and no old log beside another.
THEOREM BaseOnlyWhatIsWanted == BaseSpec => []OnlyWhatIsWanted
<1>1. BaseInv => OnlyWhatIsWanted
  BY DEF BaseInv, OnlyWhatIsWanted, ConfigInv, LogInv
<1>. QED BY <1>1, BaseInvariant, PTL

\* No result hides what failed: a path the host names is collected or said to be
\* invalid, a success of Copy means that what the settings name was copied, and
\* what is unknown of the host is neither a failure nor lost.
THEOREM BaseNothingHidden == BaseSpec => []NothingHidden
<1>1. BaseInv => NothingHidden
  BY EnvStatements DEF BaseInv, NothingHidden, ConfigInv, LogInv
<1>. QED BY <1>1, BaseInvariant, PTL

\* What a task hands on has the type its dependents assert, and comes from files
\* that were read.
THEOREM BaseHandedOn == BaseSpec => []HandedOn
<1>1. BaseInv => HandedOn
  BY ConfigStatements, LogStatements, EnvStatements DEF BaseInv, HandedOn, ConfigInv
<1>. QED BY <1>1, BaseInvariant, PTL

=============================================================================
