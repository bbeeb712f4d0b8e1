-------------------------- MODULE CpuFrequency_proofs --------------------------
(***************************************************************************)
(* Proofs for every tree of packages, cores and CPUs and any frequencies:  *)
(* CpuFrequency implements FrequencyTime, the columns of a package are     *)
(* percentages of the same time, and residencies are means.                *)
(***************************************************************************)
EXTENDS CpuFrequency, Sums_proofs, TLAPS

FrequencyTypes ==
  /\ phase \in Phases
  /\ idle \in [Nodes -> BOOLEAN]
  /\ old_idle \in [Nodes -> BOOLEAN]
  /\ current_frequency \in [Nodes -> Freqs]
  /\ effective_frequency \in [Nodes -> Freqs]
  /\ last_stamp \in [Nodes -> Nat]

\* A record has named the CPU, or one of the CPUs below the node.
SeenCpus == {c \in Cpus : idle[c] = old_idle[c]}

Named(n) == CpusBelow[n] \cap SeenCpus # {}

\* What a node looks like before a record has named it, and when one has.
NodeOK(n) ==
  /\ ~Named(n) => idle[n] = FALSE /\ old_idle[n] = TRUE /\ last_stamp[n] = last_stamp[PackageOf[n]]
  /\ Named(n) => old_idle[n] = idle[n] /\ last_stamp[n] = last_stamp[PackageOf[n]]
  /\ n \notin Cpus /\ Named(n) => idle[n] = AllIdle(idle, n)
  /\ n \notin Cpus => current_frequency[n] = Fastest(idle, current_frequency, n)
  /\ n \in Cpus /\ ~Named(n) => current_frequency[n] = 0
  /\ Named(PackageOf[n]) => effective_frequency[n] = current_frequency[PackageOf[n]]

\* Between the start of a measurement and its records nothing has been named.
Untouched ==
  /\ idle = [n \in Nodes |-> FALSE]
  /\ old_idle = [n \in Nodes |-> TRUE]
  /\ current_frequency = [n \in Nodes |-> 0]
  /\ last_stamp = [n \in Nodes |-> 0]

Inv ==
  /\ FrequencyTypes
  /\ phase \in {"measuring", "ended"} => Untouched
  /\ phase = "processing" => \A n \in Nodes : NodeOK(n)
-----------------------------------------------------------------------------
(***************************************************************************)
(* The tree.                                                               *)
(***************************************************************************)

\* Packages, cores and CPUs are apart, and what each of them has above and below.
LEMMA Tree ==
  /\ Packages \subseteq Nodes /\ Cores \subseteq Nodes /\ Cpus \subseteq Nodes
  /\ \A p \in Packages : p \notin Cores /\ p \notin Cpus /\ PackageOf[p] = p
  /\ \A k \in Cores : /\ k \notin Packages /\ k \notin Cpus
                      /\ parent[k] \in Packages /\ PackageOf[k] = parent[k]
  /\ \A c \in Cpus : /\ c \notin Packages /\ c \notin Cores
                     /\ parent[c] \in Cores /\ parent[parent[c]] \in Packages
                     /\ PackageOf[c] = parent[parent[c]]
  /\ \A n \in Nodes : PackageOf[n] \in Packages
BY TreeAssumption DEF Nodes, PackageOf

\* Children of a core are CPUs, children of a package are cores, CPUs have none.
LEMMA ChildrenAre ==
  /\ \A k \in Cores : Children[k] = {c \in Cpus : parent[c] = k} /\ Children[k] # {}
  /\ \A p \in Packages : Children[p] = {k \in Cores : parent[k] = p} /\ Children[p] # {}
<1>1. \A n \in Nodes : Children[n] = {m \in Cores \cup Cpus : parent[m] = n}  BY DEF Children
<1>2. ASSUME NEW k \in Cores
      PROVE  Children[k] = {c \in Cpus : parent[c] = k} /\ Children[k] # {}
  BY <1>1, Tree, TreeAssumption
<1>3. ASSUME NEW p \in Packages
      PROVE  Children[p] = {k \in Cores : parent[k] = p} /\ Children[p] # {}
  BY <1>1, Tree, TreeAssumption
<1> QED  BY <1>2, <1>3

\* The CPUs below each kind of node.
LEMMA BelowIs ==
  /\ \A c \in Cpus : CpusBelow[c] = {c}
  /\ \A k \in Cores : CpusBelow[k] = {c \in Cpus : parent[c] = k}
  /\ \A p \in Packages : CpusBelow[p] = {c \in Cpus : parent[parent[c]] = p}
<1>1. \A n \in Nodes : CpusBelow[n] = {c \in Cpus : n = c \/ n = parent[c] \/ n = parent[parent[c]]}
  BY DEF CpusBelow
<1>2. ASSUME NEW c \in Cpus PROVE CpusBelow[c] = {c}  BY <1>1, Tree
<1>3. ASSUME NEW k \in Cores PROVE CpusBelow[k] = {c \in Cpus : parent[c] = k}  BY <1>1, Tree
<1>4. ASSUME NEW p \in Packages PROVE CpusBelow[p] = {c \in Cpus : parent[parent[c]] = p}
  BY <1>1, Tree
<1> QED  BY <1>2, <1>3, <1>4

\* The highest of a set of frequencies.
LEMMA Highest ==
  ASSUME NEW S \in SUBSET Freqs, S # {}
  PROVE  /\ Max(S) \in S
         /\ \A f \in S : f <= Max(S)
         /\ \A m \in S : (\A f \in S : f <= m) => m = Max(S)
<1>1. \A f \in S : f \in Nat  BY FreqsAssumption
<1>2. PICK m \in S : \A f \in S : m >= f  BY FreqsAssumption
<1>3. Max(S) \in S /\ \A f \in S : Max(S) >= f  BY <1>2 DEF Max
<1> QED  BY <1>1, <1>3

\* calculate_freq gives the highest frequency of the children that are not idle.
LEMMA FastestIs ==
  ASSUME NEW isIdle, NEW freq, NEW n \in Nodes, \A m \in Children[n] : freq[m] \in Freqs
  PROVE  /\ Fastest(isIdle, freq, n) \in Freqs
         /\ \/ Fastest(isIdle, freq, n) = 0
            \/ \E m \in Children[n] : ~isIdle[m] /\ Fastest(isIdle, freq, n) = freq[m]
         /\ \A m \in Children[n] : ~isIdle[m] => freq[m] <= Fastest(isIdle, freq, n)
<1> DEFINE S == {0} \cup {freq[m] : m \in {k \in Children[n] : ~isIdle[k]}}
<1>1. S \in SUBSET Freqs /\ S # {}  BY FreqsAssumption
<1>2. Fastest(isIdle, freq, n) = Max(S)  BY DEF Fastest
<1>3. Max(S) \in S /\ \A f \in S : f <= Max(S)  BY <1>1, Highest
<1> QED  BY <1>1, <1>2, <1>3

\* A node's frequency depends on its children only.
LEMMA SameChildren ==
  ASSUME NEW isIdle1, NEW freq1, NEW isIdle2, NEW freq2, NEW n \in Nodes,
         \A m \in Children[n] : isIdle1[m] = isIdle2[m] /\ freq1[m] = freq2[m]
  PROVE  /\ Fastest(isIdle1, freq1, n) = Fastest(isIdle2, freq2, n)
         /\ AllIdle(isIdle1, n) = AllIdle(isIdle2, n)
<1>1. {freq1[m] : m \in {k \in Children[n] : ~isIdle1[k]}} =
      {freq2[m] : m \in {k \in Children[n] : ~isIdle2[k]}}
  OBVIOUS
<1>2. Fastest(isIdle1, freq1, n) = Fastest(isIdle2, freq2, n)  BY <1>1 DEF Fastest
<1>3. AllIdle(isIdle1, n) = AllIdle(isIdle2, n)  BY DEF AllIdle
<1> QED  BY <1>2, <1>3
-----------------------------------------------------------------------------
(***************************************************************************)
(* The invariant.                                                          *)
(***************************************************************************)
LEMMA InitHasInv == Init => Inv
BY FreqsAssumption DEF Init, Inv, FrequencyTypes, Phases

LEMMA StartKeepsInv ==
  ASSUME Inv, NEW reading, MeasurementStart(reading)
  PROVE  Inv'
BY FreqsAssumption DEF Inv, MeasurementStart, FrequencyTypes, Phases, Untouched

LEMMA EndKeepsInv ==
  ASSUME Inv, NEW reading, NEW boot, MeasurementEnd(reading, boot)
  PROVE  Inv'
BY DEF Inv, MeasurementEnd, FrequencyTypes, Phases, Untouched

\* When nothing has been named every node is as NodeOK says.
LEMMA UntouchedIsOK ==
  ASSUME Untouched, NEW n \in Nodes
  PROVE  NodeOK(n)
<1>1. idle[n] = FALSE /\ old_idle[n] = TRUE /\ last_stamp[n] = 0 /\ current_frequency[n] = 0
  BY DEF Untouched
<1>2. \A m \in Nodes : idle[m] = FALSE /\ old_idle[m] = TRUE /\ last_stamp[m] = 0
                       /\ current_frequency[m] = 0
  BY DEF Untouched
<1>3. SeenCpus = {}  BY <1>2, Tree DEF SeenCpus
<1>4. ~Named(n) /\ ~Named(PackageOf[n])  BY <1>3 DEF Named
<1>5. n \notin Cpus => current_frequency[n] = Fastest(idle, current_frequency, n)
  <2>1. SUFFICES ASSUME n \notin Cpus PROVE Fastest(idle, current_frequency, n) = 0  BY <1>1
  <2>2. \A m \in Children[n] : m \in Nodes  BY Tree, ChildrenAre, <2>1 DEF Nodes
  <2>3. \A m \in Children[n] : current_frequency[m] \in Freqs /\ current_frequency[m] = 0
    BY <2>2, <1>2, FreqsAssumption
  <2> QED  BY <2>3, FastestIs
<1>6. PackageOf[n] \in Nodes  BY Tree
<1> QED  BY <1>1, <1>2, <1>4, <1>5, <1>6 DEF NodeOK

LEMMA ProcessKeepsInv ==
  ASSUME Inv, ProcessCpuData
  PROVE  Inv'
<1>1. /\ phase' = "processing" /\ FrequencyTypes'
      /\ Untouched
      /\ UNCHANGED <<idle, old_idle, current_frequency, effective_frequency, last_stamp>>
  BY DEF Inv, ProcessCpuData, ResetPstateData, FrequencyTypes, Phases
<1>2. Untouched'  BY <1>1 DEF Untouched
<1>3. \A n \in Nodes : NodeOK(n)  BY <1>1, UntouchedIsOK
<1>4. \A n \in Nodes : NodeOK(n)'  BY <1>1, <1>3 DEF NodeOK, Named, SeenCpus
<1> QED  BY <1>1, <1>2, <1>4 DEF Inv

LEMMA CloseKeepsInv ==
  ASSUME Inv, EndCpuData
  PROVE  Inv'
BY DEF Inv, EndCpuData, ResetPstateData, FrequencyTypes, Phases

\* What a record changes: its CPU, core and package know what is now idle and at
\* which frequency, and that frequency is in force in the whole package.
LEMMA Updated ==
  ASSUME Inv, NEW c \in Cpus, NEW time \in Stamps, NEW isIdle \in BOOLEAN, NEW freq \in Freqs,
         FreqUpdated(c, time, isIdle, freq),
         NEW core, NEW package, core = parent[c], package = parent[core]
  PROVE  /\ phase = "processing" /\ phase' = phase
         /\ core \in Cores /\ package \in Packages
         /\ FrequencyTypes'
         /\ idle'[c] = isIdle /\ current_frequency'[c] = freq
         /\ \A n \in Nodes \ {c, core, package} :
              /\ idle'[n] = idle[n] /\ old_idle'[n] = old_idle[n]
              /\ current_frequency'[n] = current_frequency[n]
         /\ \A n \in {c, core, package} : old_idle'[n] = idle'[n]
         /\ \A n \in {core, package} :
              /\ idle'[n] = AllIdle(idle', n)
              /\ current_frequency'[n] = Fastest(idle', current_frequency', n)
         /\ \A n \in Nodes :
              IF PackageOf[n] = package
              THEN effective_frequency'[n] = current_frequency'[package] /\ last_stamp'[n] = time
              ELSE UNCHANGED <<effective_frequency[n], last_stamp[n]>>
<1> DEFINE cpuIdle  == [idle EXCEPT ![c] = isIdle]
           coreIdle == [cpuIdle EXCEPT ![core] = AllIdle(cpuIdle, core)]
           cpuFreq  == [current_frequency EXCEPT ![c] = freq]
           coreFreq == [cpuFreq EXCEPT ![core] = Fastest(cpuIdle, cpuFreq, core)]
<1>1. /\ phase = "processing" /\ phase' = phase
      /\ idle' = [coreIdle EXCEPT ![package] = AllIdle(coreIdle, package)]
      /\ current_frequency' = [coreFreq EXCEPT ![package] = Fastest(coreIdle, coreFreq, package)]
      /\ ChangeEffectiveFrequency(package, time, current_frequency'[package])
      /\ old_idle' = [n \in Nodes |-> IF n \in {c, core, package} THEN idle'[n] ELSE old_idle[n]]
  BY DEF FreqUpdated
<1>2. core \in Cores /\ package \in Packages /\ c \in Nodes /\ core \in Nodes /\ package \in Nodes
      /\ c # core /\ c # package /\ core # package
  BY Tree
<1>3. FrequencyTypes  BY DEF Inv
<1>4. Children[core] \subseteq Cpus /\ Children[package] \subseteq Cores
  BY <1>2, ChildrenAre
<1>5. /\ cpuIdle \in [Nodes -> BOOLEAN] /\ cpuFreq \in [Nodes -> Freqs]
      /\ cpuIdle[c] = isIdle /\ cpuFreq[c] = freq
      /\ \A n \in Nodes \ {c} : cpuIdle[n] = idle[n] /\ cpuFreq[n] = current_frequency[n]
  BY <1>2, <1>3 DEF FrequencyTypes
<1>6. AllIdle(cpuIdle, core) \in BOOLEAN /\ Fastest(cpuIdle, cpuFreq, core) \in Freqs
  <2>1. \A m \in Children[core] : cpuFreq[m] \in Freqs  BY <1>4, <1>5, Tree
  <2> HIDE DEF cpuFreq, cpuIdle
  <2>2. Fastest(cpuIdle, cpuFreq, core) \in Freqs  BY <1>2, <2>1, FastestIs
  <2> QED  BY <2>2 DEF AllIdle
<1> HIDE DEF cpuIdle, cpuFreq
<1>7. /\ coreIdle \in [Nodes -> BOOLEAN] /\ coreFreq \in [Nodes -> Freqs]
      /\ coreIdle[core] = AllIdle(cpuIdle, core)
      /\ coreFreq[core] = Fastest(cpuIdle, cpuFreq, core)
      /\ \A n \in Nodes \ {core} : coreIdle[n] = cpuIdle[n] /\ coreFreq[n] = cpuFreq[n]
  BY <1>2, <1>5, <1>6
<1>8. AllIdle(coreIdle, package) \in BOOLEAN /\ Fastest(coreIdle, coreFreq, package) \in Freqs
  <2>1. \A m \in Children[package] : coreFreq[m] \in Freqs  BY <1>4, <1>7, Tree
  <2> HIDE DEF coreFreq, coreIdle
  <2>2. Fastest(coreIdle, coreFreq, package) \in Freqs  BY <1>2, <2>1, FastestIs
  <2> QED  BY <2>2 DEF AllIdle
<1> HIDE DEF coreIdle, coreFreq
<1>9. /\ idle' \in [Nodes -> BOOLEAN] /\ current_frequency' \in [Nodes -> Freqs]
      /\ idle'[package] = AllIdle(coreIdle, package)
      /\ current_frequency'[package] = Fastest(coreIdle, coreFreq, package)
      /\ \A n \in Nodes \ {package} : idle'[n] = coreIdle[n] /\ current_frequency'[n] = coreFreq[n]
  BY <1>1, <1>2, <1>7, <1>8
<1>10. \A m \in Children[core] : idle'[m] = cpuIdle[m] /\ current_frequency'[m] = cpuFreq[m]
  BY <1>2, <1>4, <1>7, <1>9, Tree
<1>11. \A m \in Children[package] : idle'[m] = coreIdle[m] /\ current_frequency'[m] = coreFreq[m]
  BY <1>2, <1>4, <1>9, Tree
<1>12. /\ AllIdle(idle', core) = AllIdle(cpuIdle, core)
       /\ Fastest(idle', current_frequency', core) = Fastest(cpuIdle, cpuFreq, core)
  BY <1>2, <1>10, SameChildren
<1>13. /\ AllIdle(idle', package) = AllIdle(coreIdle, package)
       /\ Fastest(idle', current_frequency', package) = Fastest(coreIdle, coreFreq, package)
  BY <1>2, <1>11, SameChildren
<1>14. \A n \in {core, package} :
         /\ idle'[n] = AllIdle(idle', n)
         /\ current_frequency'[n] = Fastest(idle', current_frequency', n)
  BY <1>2, <1>7, <1>9, <1>12, <1>13
<1>15. old_idle' \in [Nodes -> BOOLEAN]
       /\ \A n \in {c, core, package} : old_idle'[n] = idle'[n]
  BY <1>1, <1>2, <1>3, <1>9 DEF FrequencyTypes
<1>16. \A n \in Nodes \ {c, core, package} :
         /\ idle'[n] = idle[n] /\ old_idle'[n] = old_idle[n]
         /\ current_frequency'[n] = current_frequency[n]
  BY <1>1, <1>2, <1>5, <1>7, <1>9
<1>17. idle'[c] = isIdle /\ current_frequency'[c] = freq
  BY <1>2, <1>5, <1>7, <1>9
<1>18. \A n \in Nodes :
         IF PackageOf[n] = package
         THEN effective_frequency'[n] = current_frequency'[package] /\ last_stamp'[n] = time
         ELSE UNCHANGED <<effective_frequency[n], last_stamp[n]>>
  BY <1>1 DEF ChangeEffectiveFrequency, Reached
<1>19. effective_frequency' \in [Nodes -> Freqs] /\ last_stamp' \in [Nodes -> Nat]
  <2>1. time \in Nat  BY ReadingsAssumption DEF Stamps
  <2>2. current_frequency'[package] \in Freqs  BY <1>2, <1>9
  <2> QED  BY <1>1, <1>3, <2>1, <2>2 DEF ChangeEffectiveFrequency, FrequencyTypes
<1>20. FrequencyTypes'
  BY <1>1, <1>3, <1>9, <1>15, <1>19 DEF FrequencyTypes
<1> QED  BY <1>1, <1>2, <1>14, <1>15, <1>16, <1>17, <1>18, <1>20

\* After a record its CPU is named, and so are its core and its package.
LEMMA NamedAfter ==
  ASSUME Inv, NEW c \in Cpus, NEW time \in Stamps, NEW isIdle \in BOOLEAN, NEW freq \in Freqs,
         FreqUpdated(c, time, isIdle, freq)
  PROVE  /\ SeenCpus' = SeenCpus \cup {c}
         /\ \A n \in Nodes : Named(n)' <=> Named(n) \/ n \in {c, parent[c], parent[parent[c]]}
<1> DEFINE core == parent[c]
           package == parent[core]
<1>1. /\ core \in Cores /\ package \in Packages
      /\ idle'[c] = old_idle'[c]
      /\ \A n \in Nodes \ {c, core, package} : idle'[n] = idle[n] /\ old_idle'[n] = old_idle[n]
  BY Updated
<1>2. \A m \in Cpus \ {c} : idle'[m] = idle[m] /\ old_idle'[m] = old_idle[m]
  BY <1>1, Tree
<1>3. SeenCpus' = SeenCpus \cup {c}  BY <1>1, <1>2 DEF SeenCpus
<1>4. \A n \in Nodes : c \in CpusBelow[n] <=> n \in {c, core, package}
  BY DEF CpusBelow
<1>5. \A n \in Nodes : Named(n)' <=> Named(n) \/ c \in CpusBelow[n]
  BY <1>3 DEF Named
<1> QED  BY <1>3, <1>4, <1>5

\* The children of a core or package that a record does not go through are not
\* among the nodes that it does go through.
LEMMA OtherChildren ==
  ASSUME NEW c \in Cpus, NEW n \in Packages \cup Cores, n # parent[c], n # parent[parent[c]]
  PROVE  \A m \in Children[n] : m \in Nodes \ {c, parent[c], parent[parent[c]]}
<1>1. CASE n \in Cores  BY <1>1, Tree, ChildrenAre
<1>2. CASE n \in Packages  BY <1>2, Tree, ChildrenAre
<1> QED  BY <1>1, <1>2

LEMMA RecordKeepsInv ==
  ASSUME Inv, NEW c \in Cpus, NEW time \in Stamps, NEW isIdle \in BOOLEAN, NEW freq \in Freqs,
         FreqUpdated(c, time, isIdle, freq)
  PROVE  Inv'
<1> DEFINE core == parent[c]
           package == parent[core]
<1>1. /\ phase = "processing" /\ phase' = phase
      /\ core \in Cores /\ package \in Packages
      /\ FrequencyTypes'
      /\ \A n \in Nodes \ {c, core, package} :
           /\ idle'[n] = idle[n] /\ old_idle'[n] = old_idle[n]
           /\ current_frequency'[n] = current_frequency[n]
      /\ \A n \in {c, core, package} : old_idle'[n] = idle'[n]
      /\ \A n \in {core, package} :
           /\ idle'[n] = AllIdle(idle', n)
           /\ current_frequency'[n] = Fastest(idle', current_frequency', n)
      /\ \A n \in Nodes :
           IF PackageOf[n] = package
           THEN effective_frequency'[n] = current_frequency'[package] /\ last_stamp'[n] = time
           ELSE UNCHANGED <<effective_frequency[n], last_stamp[n]>>
  BY Updated
<1>2. \A n \in Nodes : Named(n)' <=> Named(n) \/ n \in {c, core, package}  BY NamedAfter
<1>3. \A n \in Nodes : NodeOK(n)  BY <1>1 DEF Inv
<1>4. ASSUME NEW n \in Nodes PROVE NodeOK(n)'
  <2>1. PackageOf[n] \in Nodes /\ PackageOf[n] \in Packages /\ PackageOf[PackageOf[n]] = PackageOf[n]
    BY Tree
  <2>2. NodeOK(n) /\ NodeOK(PackageOf[n])  BY <1>3, <2>1
  <2>3. last_stamp'[n] = last_stamp'[PackageOf[n]]
    BY <1>1, <2>1, <2>2 DEF NodeOK
  <2>4. Named(PackageOf[n])' => effective_frequency'[n] = current_frequency'[PackageOf[n]]
    <3>1. CASE PackageOf[n] = package  BY <1>1, <3>1
    <3>2. CASE PackageOf[n] # package
      <4>1. PackageOf[n] \notin {c, core, package}  BY <3>2, <2>1, Tree
      <4> QED  BY <1>1, <1>2, <2>1, <2>2, <3>2, <4>1 DEF NodeOK
    <3> QED  BY <3>1, <3>2
  <2>5. CASE n \in {c, core, package}
    <3>1. Named(n)'  BY <1>2, <2>5
    <3>2. n \notin Cpus => n \in {core, package}  BY <2>5
    <3> QED  BY <1>1, <2>3, <2>4, <2>5, <3>1, <3>2 DEF NodeOK
  <2>6. CASE n \notin {c, core, package}
    <3>1. Named(n)' <=> Named(n)  BY <1>2, <2>6
    <3>2. /\ idle'[n] = idle[n] /\ old_idle'[n] = old_idle[n]
          /\ current_frequency'[n] = current_frequency[n]
      BY <1>1, <2>6
    <3>3. n \notin Cpus =>
            /\ AllIdle(idle', n) = AllIdle(idle, n)
            /\ Fastest(idle', current_frequency', n) = Fastest(idle, current_frequency, n)
      <4>1. SUFFICES ASSUME n \notin Cpus
                     PROVE  /\ AllIdle(idle', n) = AllIdle(idle, n)
                            /\ Fastest(idle', current_frequency', n) = Fastest(idle, current_frequency, n)
        OBVIOUS
      <4>2. n \in Packages \cup Cores  BY <4>1 DEF Nodes
      <4>3. \A m \in Children[n] : m \in Nodes \ {c, core, package}  BY <2>6, <4>2, OtherChildren
      <4>4. \A m \in Children[n] : idle'[m] = idle[m] /\ current_frequency'[m] = current_frequency[m]
        BY <1>1, <4>3
      <4> QED  BY <4>4, SameChildren
    <3> QED  BY <2>2, <2>3, <2>4, <3>1, <3>2, <3>3 DEF NodeOK
  <2> QED  BY <2>5, <2>6
<1> QED  BY <1>1, <1>4 DEF Inv

\* Every record is one of a CPU's that is now idle or not, at some frequency.
LEMMA RecordIs ==
  ASSUME Inv, NEW c \in Cpus, NEW time \in Stamps, HandleTracePoint(c, time)
  PROVE  \E isIdle \in BOOLEAN, freq \in Freqs : FreqUpdated(c, time, isIdle, freq)
<1>1. idle[c] \in BOOLEAN /\ current_frequency[c] \in Freqs
  BY Tree DEF Inv, FrequencyTypes
<1> QED  BY <1>1 DEF HandleTracePoint, GoIdle, GoUnidle, ChangeFreq

LEMMA NextKeepsInv == Inv /\ [Next]_vars => Inv'
<1> SUFFICES ASSUME Inv, [Next]_vars PROVE Inv'  OBVIOUS
<1>1. CASE \E reading \in [Cpus -> Readings \cup {Unreadable}] : MeasurementStart(reading)
  BY <1>1, StartKeepsInv
<1>2. CASE \E reading \in [Cpus -> Readings \cup {Unreadable}], boot \in [Cpus -> Readings] :
             MeasurementEnd(reading, boot)
  BY <1>2, EndKeepsInv
<1>3. CASE ProcessCpuData  BY <1>3, ProcessKeepsInv
<1>4. CASE \E c \in Cpus, time \in Stamps : HandleTracePoint(c, time)
  BY <1>4, RecordIs, RecordKeepsInv
<1>5. CASE EndCpuData  BY <1>5, CloseKeepsInv
<1>6. CASE UNCHANGED vars
  BY <1>6 DEF vars, frequencyVars, Inv, FrequencyTypes, Untouched, NodeOK, Named, SeenCpus
<1> QED  BY <1>1, <1>2, <1>3, <1>4, <1>5, <1>6 DEF Next

LEMMA AlwaysInv == Spec => []Inv
BY InitHasInv, NextKeepsInv, PTL DEF Spec
-----------------------------------------------------------------------------
(***************************************************************************)
(* Refinement of FrequencyTime.                                            *)
(***************************************************************************)
Busy == {c \in Cpus : ~old_idle[c]}

Resting(n) == CpusBelow[n] \cap SeenCpus = {} \/ CpusBelow[n] \subseteq SeenCpus \ Busy

\* A CPU is idle only if a record has said so; else it is busy or not yet named.
LEMMA CpuStates ==
  ASSUME Inv, phase = "processing", NEW c \in Cpus
  PROVE  /\ idle[c] <=> c \in SeenCpus \ Busy
         /\ Named(c) <=> c \in SeenCpus
         /\ c \notin SeenCpus => c \notin Busy /\ current_frequency[c] = 0
<1>1. NodeOK(c) /\ idle[c] \in BOOLEAN /\ old_idle[c] \in BOOLEAN  BY Tree DEF Inv, FrequencyTypes
<1>2. Named(c) <=> c \in SeenCpus  BY BelowIs DEF Named
<1>3. c \in SeenCpus <=> idle[c] = old_idle[c]  BY DEF SeenCpus
<1>4. c \in Busy <=> ~old_idle[c]  BY DEF Busy
<1>5. ~Named(c) => idle[c] = FALSE /\ old_idle[c] = TRUE /\ current_frequency[c] = 0
  BY <1>1 DEF NodeOK
<1> QED  BY <1>1, <1>2, <1>3, <1>4, <1>5

\* A core is idle when all its CPUs are.
LEMMA CoreStates ==
  ASSUME Inv, phase = "processing", NEW k \in Cores
  PROVE  /\ idle[k] <=> CpusBelow[k] \subseteq SeenCpus \ Busy
         /\ Children[k] = CpusBelow[k] /\ CpusBelow[k] # {}
<1>1. NodeOK(k) /\ idle[k] \in BOOLEAN  BY Tree DEF Inv, FrequencyTypes
<1>2. Children[k] = CpusBelow[k] /\ CpusBelow[k] # {} /\ CpusBelow[k] \subseteq Cpus
  BY ChildrenAre, BelowIs
<1>3. ASSUME idle[k] PROVE CpusBelow[k] \subseteq SeenCpus \ Busy
  <2>1. AllIdle(idle, k)  BY <1>1, <1>3, Tree DEF NodeOK
  <2>2. \A c \in CpusBelow[k] : idle[c]  BY <1>2, <2>1 DEF AllIdle
  <2> QED  BY <1>2, <2>2, CpuStates
<1>4. ASSUME CpusBelow[k] \subseteq SeenCpus \ Busy PROVE idle[k]
  <2>1. Named(k)  BY <1>2, <1>4 DEF Named
  <2>2. \A c \in CpusBelow[k] : idle[c]  BY <1>2, <1>4, CpuStates
  <2>3. AllIdle(idle, k)  BY <1>2, <2>2 DEF AllIdle
  <2> QED  BY <1>1, <2>1, <2>3, Tree DEF NodeOK
<1> QED  BY <1>2, <1>3, <1>4

\* And a package when all the CPUs of its cores are.
LEMMA PackageStates ==
  ASSUME Inv, phase = "processing", NEW p \in Packages
  PROVE  /\ idle[p] <=> CpusBelow[p] \subseteq SeenCpus \ Busy
         /\ \A k \in Children[p] : k \in Cores /\ CpusBelow[k] \subseteq CpusBelow[p]
         /\ \A c \in CpusBelow[p] : c \in Cpus /\ parent[c] \in Children[p] /\ c \in CpusBelow[parent[c]]
<1>1. NodeOK(p) /\ idle[p] \in BOOLEAN  BY Tree DEF Inv, FrequencyTypes
<1>2. Children[p] # {} /\ \A k \in Children[p] : k \in Cores /\ CpusBelow[k] \subseteq CpusBelow[p]
  BY ChildrenAre, BelowIs
<1>3. \A c \in CpusBelow[p] : c \in Cpus /\ parent[c] \in Children[p] /\ c \in CpusBelow[parent[c]]
  BY ChildrenAre, BelowIs, Tree
<1>4. ASSUME idle[p] PROVE CpusBelow[p] \subseteq SeenCpus \ Busy
  <2>1. AllIdle(idle, p)  BY <1>1, <1>4, Tree DEF NodeOK
  <2>2. \A k \in Children[p] : idle[k]  BY <2>1 DEF AllIdle
  <2> QED  BY <1>2, <1>3, <2>2, CoreStates
<1>5. ASSUME CpusBelow[p] \subseteq SeenCpus \ Busy PROVE idle[p]
  <2>1. \A k \in Children[p] : idle[k] /\ CpusBelow[k] # {}  BY <1>2, <1>5, CoreStates
  <2>2. Named(p)  BY <1>2, <1>5, <2>1 DEF Named
  <2>3. AllIdle(idle, p)  BY <2>1 DEF AllIdle
  <2> QED  BY <1>1, <2>2, <2>3, Tree DEF NodeOK
<1> QED  BY <1>2, <1>3, <1>4, <1>5

\* What is taken for idle until now is what FrequencyTime calls resting.
LEMMA OldIdleRests ==
  ASSUME Inv, phase = "processing", NEW n \in Nodes
  PROVE  old_idle[n] <=> Resting(n)
<1>1. NodeOK(n) /\ idle[n] \in BOOLEAN /\ old_idle[n] \in BOOLEAN  BY DEF Inv, FrequencyTypes
<1>2. CASE ~Named(n)  BY <1>1, <1>2 DEF NodeOK, Named, Resting
<1>3. CASE Named(n)
  <2>1. old_idle[n] = idle[n]  BY <1>1, <1>3 DEF NodeOK
  <2>2. CpusBelow[n] \cap SeenCpus # {}  BY <1>3 DEF Named
  <2>3. idle[n] <=> CpusBelow[n] \subseteq SeenCpus \ Busy
    <3>1. CASE n \in Cpus  BY <3>1, CpuStates, BelowIs
    <3>2. CASE n \in Cores  BY <3>2, CoreStates
    <3>3. CASE n \in Packages  BY <3>3, PackageStates
    <3> QED  BY <3>1, <3>2, <3>3 DEF Nodes
  <2> QED  BY <2>1, <2>2, <2>3 DEF Resting
<1> QED  BY <1>2, <1>3

\* The frequency that the tree works out level by level is the highest of all busy CPUs.
LEMMA FastestOfTree ==
  ASSUME Inv, phase = "processing", NEW p \in Packages
  PROVE  current_frequency[p] = Max({0} \cup {current_frequency[c] : c \in CpusBelow[p] \cap Busy})
<1> DEFINE S == {0} \cup {current_frequency[c] : c \in CpusBelow[p] \cap Busy}
           T == current_frequency[p]
<1>1. \A n \in Nodes : NodeOK(n) /\ current_frequency[n] \in Freqs  BY DEF Inv, FrequencyTypes
<1>2. S \in SUBSET Freqs /\ S # {}
  <2>1. \A c \in CpusBelow[p] : current_frequency[c] \in Freqs  BY <1>1, PackageStates, Tree
  <2> QED  BY <2>1, FreqsAssumption
<1>3. \A n \in Nodes : \A m \in Children[n] : m \in Nodes  BY DEF Children, Nodes
<1>4. \A n \in Packages \cup Cores :
        /\ \/ current_frequency[n] = 0
           \/ \E m \in Children[n] : ~idle[m] /\ current_frequency[n] = current_frequency[m]
        /\ \A m \in Children[n] : ~idle[m] => current_frequency[m] <= current_frequency[n]
  <2>1. TAKE n \in Packages \cup Cores
  <2>2. n \in Nodes /\ n \notin Cpus  BY Tree
  <2>3. current_frequency[n] = Fastest(idle, current_frequency, n)  BY <1>1, <2>2 DEF NodeOK
  <2>4. \A m \in Children[n] : current_frequency[m] \in Freqs  BY <1>1, <1>3, <2>2
  <2> QED  BY <2>2, <2>3, <2>4, FastestIs
<1>5. T \in S
  <2>1. ASSUME T # 0
        PROVE  \E k \in Children[p] : \E c \in Children[k] : ~idle[c] /\ T = current_frequency[c]
    <3>1. PICK k \in Children[p] : T = current_frequency[k]  BY <1>4, <2>1
    <3> QED  BY <1>4, <2>1, <3>1, PackageStates
  <2>2. ASSUME NEW k \in Children[p], NEW c \in Children[k], ~idle[c], T = current_frequency[c], T # 0
        PROVE  c \in CpusBelow[p] \cap Busy
    <3>1. c \in CpusBelow[p] /\ c \in Cpus  BY CoreStates, PackageStates
    <3> QED  BY <2>2, <3>1, CpuStates
  <2> QED  BY <2>1, <2>2
<1>6. \A f \in S : f <= T
  <2>1. T \in Nat  BY <1>1, Tree, FreqsAssumption
  <2>2. ASSUME NEW c \in CpusBelow[p] \cap Busy PROVE current_frequency[c] <= T
    <3>1. /\ c \in Cpus /\ parent[c] \in Children[p] /\ parent[c] \in Cores
          /\ c \in CpusBelow[parent[c]] /\ c \in Children[parent[c]]
      BY CoreStates, PackageStates
    <3>2. ~idle[c] /\ ~idle[parent[c]]  BY <2>2, <3>1, CpuStates, CoreStates
    <3>3. /\ current_frequency[c] <= current_frequency[parent[c]]
          /\ current_frequency[parent[c]] <= T
      BY <1>4, <3>1, <3>2
    <3>4. current_frequency[c] \in Nat /\ current_frequency[parent[c]] \in Nat
      BY <1>1, <3>1, Tree, FreqsAssumption
    <3> QED  BY <2>1, <3>3, <3>4
  <2> QED  BY <2>1, <2>2
<1> HIDE DEF S, T
<1>7. T = Max(S)  BY <1>2, <1>5, <1>6, Highest
<1> QED  BY <1>7 DEF S, T

\* While records are handled, FrequencyTime sees this of the tree.
LEMMA WhileProcessing ==
  ASSUME phase = "processing"
  PROVE  /\ Shown({c \in Cpus : idle[c] = old_idle[c]}, {}) = SeenCpus
         /\ Shown({c \in Cpus : ~old_idle[c]}, {}) = Busy
         /\ [c \in Cpus |-> Shown(current_frequency[c], 0)] = [c \in Cpus |-> current_frequency[c]]
         /\ [n \in Nodes |-> Shown(IF n \in Packages THEN last_stamp[n] ELSE 0, 0)] =
            [n \in Nodes |-> IF n \in Packages THEN last_stamp[n] ELSE 0]
         /\ Shown(time_after, NoTime) = time_after
BY DEF Shown, SeenCpus, Busy

\* The frequency to which time is charged is the one FrequencyTime has in force.
LEMMA ChargedIsInForce ==
  ASSUME Inv, phase = "processing", NEW n \in Nodes
  PROVE  ChargedFrequency(n) = Truth!InForce(n)
<1> DEFINE S == {0} \cup {current_frequency[c] : c \in CpusBelow[PackageOf[n]] \cap Busy}
<1>1. Truth!Rests(n) <=> Resting(n)  BY WhileProcessing DEF Truth!Rests, Resting
<1>2. Truth!Fastest(PackageOf[n]) = Max(S)
  <2>1. PackageOf[n] \in Packages  BY Tree
  <2>2. \A c \in CpusBelow[PackageOf[n]] : c \in Cpus  BY <2>1, PackageStates
  <2>3. {0} \cup {[x \in Cpus |-> Shown(current_frequency[x], 0)][c] : c \in CpusBelow[PackageOf[n]] \cap Busy} = S
    BY <2>2, WhileProcessing
  <2> QED  BY <2>3, WhileProcessing DEF Truth!Fastest, Max, Truth!Max
<1>3. old_idle[n] <=> Resting(n)  BY OldIdleRests
<1>4. ~Resting(n) => effective_frequency[n] = Max(S)
  <2>1. SUFFICES ASSUME ~Resting(n) PROVE effective_frequency[n] = Max(S)  OBVIOUS
  <2>2. Named(n)  BY <2>1 DEF Resting, Named
  <2>3. PackageOf[n] \in Packages /\ CpusBelow[n] \subseteq CpusBelow[PackageOf[n]]
    BY Tree, BelowIs DEF Nodes
  <2>4. Named(PackageOf[n])  BY <2>2, <2>3 DEF Named
  <2>5. effective_frequency[n] = current_frequency[PackageOf[n]]  BY <2>4 DEF Inv, NodeOK
  <2> QED  BY <2>3, <2>5, FastestOfTree
<1> QED  BY <1>1, <1>2, <1>3, <1>4 DEF ChargedFrequency, Truth!InForce

\* A record is one of FrequencyTime's.
LEMMA RecordsTruly ==
  ASSUME Inv, NEW c \in Cpus, NEW time \in Stamps, NEW isIdle \in BOOLEAN, NEW freq \in Freqs,
         FreqUpdated(c, time, isIdle, freq)
  PROVE  Truth!Record(c, time, ~isIdle, freq)
<1> DEFINE core == parent[c]
           package == parent[core]
           stamps == [n \in Nodes |-> IF n \in Packages THEN last_stamp[n] ELSE 0]
<1>1. /\ phase = "processing" /\ phase' = phase
      /\ core \in Cores /\ package \in Packages
      /\ idle'[c] = isIdle /\ current_frequency'[c] = freq
      /\ \A n \in Nodes \ {c, core, package} :
           old_idle'[n] = old_idle[n] /\ current_frequency'[n] = current_frequency[n]
      /\ old_idle'[c] = idle'[c]
      /\ \A n \in Nodes :
           IF PackageOf[n] = package THEN last_stamp'[n] = time
                                     ELSE UNCHANGED <<effective_frequency[n], last_stamp[n]>>
  BY Updated
<1>2. SeenCpus' = SeenCpus \cup {c}  BY NamedAfter
<1>3. PackageOf[c] = package /\ \A p \in Packages : p \in Nodes /\ PackageOf[p] = p  BY Tree
<1>4. \A x \in Cpus \ {c} : old_idle'[x] = old_idle[x] /\ current_frequency'[x] = current_frequency[x]
  BY <1>1, Tree
<1>5. Busy' = IF ~isIdle THEN Busy \cup {c} ELSE Busy \ {c}  BY <1>1, <1>4 DEF Busy
<1>6. [x \in Cpus |-> current_frequency'[x]] = [[x \in Cpus |-> current_frequency[x]] EXCEPT ![c] = freq]
  BY <1>1, <1>4
<1>7. stamps' = [n \in Nodes |-> IF n = package THEN time ELSE stamps[n]]
  BY <1>1, <1>3
<1>8. \A n \in Nodes : stamps[n] <= time
  <2>1. InOrder(time) /\ time \in Nat  BY ReadingsAssumption DEF FreqUpdated, Stamps
  <2> QED  BY <2>1 DEF InOrder
<1>9. ASSUME NEW n \in Nodes, PackageOf[n] = package
      PROVE  TimeDelta(n, time) = Truth!Elapsed(package, time)
  <2>1. last_stamp[n] = last_stamp[package]  BY <1>1, <1>9 DEF Inv, NodeOK
  <2>2. stamps[package] = last_stamp[package]  BY <1>1, <1>3
  <2> QED  BY <1>1, <2>1, <2>2, WhileProcessing DEF TimeDelta, Truth!Elapsed
<1>10. time_after' = [n \in Nodes |-> IF PackageOf[n] = PackageOf[c]
         THEN [time_after[n] EXCEPT ![Truth!InForce(n)] = @ + Truth!Elapsed(PackageOf[c], time)]
         ELSE time_after[n]]
  <2>1. time_after' = [n \in Nodes |-> IF n \in Reached(package)
         THEN [time_after[n] EXCEPT ![ChargedFrequency(n)] = @ + TimeDelta(n, time)]
         ELSE time_after[n]]
    BY DEF FreqUpdated, ChangeEffectiveFrequency
  <2>2. \A n \in Nodes : n \in Reached(package) <=> PackageOf[n] = PackageOf[c]
    BY <1>3 DEF Reached
  <2>3. \A n \in Nodes : ChargedFrequency(n) = Truth!InForce(n)  BY <1>1, ChargedIsInForce
  <2> QED  BY <1>3, <1>9, <2>1, <2>2, <2>3
<1>11. /\ Shown({x \in Cpus : idle[x] = old_idle[x]}, {})' = SeenCpus'
       /\ Shown({x \in Cpus : ~old_idle[x]}, {})' = Busy'
       /\ [x \in Cpus |-> Shown(current_frequency[x], 0)]' = [x \in Cpus |-> current_frequency'[x]]
       /\ [n \in Nodes |-> Shown(IF n \in Packages THEN last_stamp[n] ELSE 0, 0)]' = stamps'
       /\ Shown(time_after, NoTime)' = time_after'
  BY <1>1 DEF Shown, SeenCpus, Busy
<1>12. /\ Shown({x \in Cpus : idle[x] = old_idle[x]}, {})' =
            Shown({x \in Cpus : idle[x] = old_idle[x]}, {}) \cup {c}
       /\ Shown({x \in Cpus : ~old_idle[x]}, {})' =
            IF ~isIdle THEN Shown({x \in Cpus : ~old_idle[x]}, {}) \cup {c}
                       ELSE Shown({x \in Cpus : ~old_idle[x]}, {}) \ {c}
  BY <1>1, <1>2, <1>5, <1>11, WhileProcessing
<1>13. [x \in Cpus |-> Shown(current_frequency[x], 0)]' =
       [[x \in Cpus |-> Shown(current_frequency[x], 0)] EXCEPT ![c] = freq]
  BY <1>1, <1>6, <1>11, WhileProcessing
<1>14. [n \in Nodes |-> Shown(IF n \in Packages THEN last_stamp[n] ELSE 0, 0)] = stamps
  BY <1>1, WhileProcessing
<1>15. Shown(time_after, NoTime) = time_after  BY <1>1, WhileProcessing
<1> HIDE DEF stamps
<1>16. [n \in Nodes |-> Shown(IF n \in Packages THEN last_stamp[n] ELSE 0, 0)]' =
       [n \in Nodes |-> IF n = PackageOf[c] THEN time
          ELSE [m \in Nodes |-> Shown(IF m \in Packages THEN last_stamp[m] ELSE 0, 0)][n]]
  BY <1>3, <1>7, <1>11, <1>14
<1>17. Shown(time_after, NoTime)' = [n \in Nodes |-> IF PackageOf[n] = PackageOf[c]
         THEN [Shown(time_after, NoTime)[n] EXCEPT
                 ![Truth!InForce(n)] = @ + Truth!Elapsed(PackageOf[c], time)]
         ELSE Shown(time_after, NoTime)[n]]
  BY <1>10, <1>11, <1>15
<1>18. \A n \in Nodes :
         [m \in Nodes |-> Shown(IF m \in Packages THEN last_stamp[m] ELSE 0, 0)][n] <= time
  BY <1>8, <1>14
<1> QED
  BY <1>1, <1>12, <1>13, <1>16, <1>17, <1>18 DEF Truth!Record

\* The other steps begin or end the handling of records, or are not seen.
LEMMA StepsAccountTruly == Inv /\ [Next]_vars => [Truth!Next]_(Truth!vars)
<1> SUFFICES ASSUME Inv, [Next]_vars PROVE Truth!Next \/ UNCHANGED Truth!vars
  OBVIOUS
<1>1. ASSUME phase # "processing", phase' # "processing" PROVE UNCHANGED Truth!vars
  BY <1>1 DEF Truth!vars, Shown
<1>2. CASE \E reading \in [Cpus -> Readings \cup {Unreadable}] : MeasurementStart(reading)
  BY <1>1, <1>2 DEF MeasurementStart
<1>3. CASE \E reading \in [Cpus -> Readings \cup {Unreadable}], boot \in [Cpus -> Readings] :
             MeasurementEnd(reading, boot)
  BY <1>1, <1>3 DEF MeasurementEnd
<1>4. CASE ProcessCpuData
  <2>1. /\ phase = "ended" /\ phase' = "processing" /\ time_after' = NoTime
        /\ UNCHANGED <<idle, old_idle, current_frequency, last_stamp>> /\ Untouched
    BY <1>4 DEF ProcessCpuData, ResetPstateData, Inv
  <2>2. \A n \in Nodes : /\ idle'[n] = FALSE /\ old_idle'[n] = TRUE
                         /\ current_frequency'[n] = 0 /\ last_stamp'[n] = 0
    BY <2>1 DEF Untouched
  <2>3. {c \in Cpus : idle'[c] = old_idle'[c]} = {} /\ {c \in Cpus : ~old_idle'[c]} = {}
    BY <2>2, Tree
  <2>4. [c \in Cpus |-> current_frequency'[c]] = [c \in Cpus |-> 0]
    BY <2>2, Tree
  <2>5. [n \in Nodes |-> IF n \in Packages THEN last_stamp'[n] ELSE 0] = [n \in Nodes |-> 0]
    BY <2>2
  <2>6. Truth!Open  BY <2>1, <2>3, <2>4, <2>5 DEF Truth!Open, Shown
  <2> QED  BY <2>6 DEF Truth!Next
<1>5. CASE \E c \in Cpus, time \in Stamps : HandleTracePoint(c, time)
  <2>1. PICK c \in Cpus, time \in Stamps : HandleTracePoint(c, time)  BY <1>5
  <2>2. PICK isIdle \in BOOLEAN, freq \in Freqs : FreqUpdated(c, time, isIdle, freq)
    BY <2>1, RecordIs
  <2>3. Truth!Record(c, time, ~isIdle, freq)  BY <2>2, RecordsTruly
  <2> QED  BY <2>3 DEF Truth!Next
<1>6. CASE EndCpuData
  <2>1. Truth!Close  BY <1>6 DEF EndCpuData, Truth!Close, Truth!Empty, Shown, NoTime
  <2> QED  BY <2>1 DEF Truth!Next
<1>7. CASE UNCHANGED vars  BY <1>7 DEF vars, frequencyVars, Truth!vars, Shown
<1> QED  BY <1>2, <1>3, <1>4, <1>5, <1>6, <1>7 DEF Next

\* In every tree and in any order of records each node is given the time at each
\* frequency that it really spent there (abstract_cpu::change_effective_frequency).
THEOREM FrequencyRefinement == Spec => AccountsTruly
<1>1. Init => Truth!Init  BY DEF Init, Truth!Init, Truth!Empty, Shown, NoTime
<1>2. Inv /\ [Next]_vars => [Truth!Next]_(Truth!vars)  BY StepsAccountTruly
<1> QED  BY <1>1, <1>2, AlwaysInv, PTL DEF Spec, AccountsTruly, Truth!Spec
-----------------------------------------------------------------------------
(***************************************************************************)
(* Totals.                                                                 *)
(***************************************************************************)
TimesOK ==
  /\ last_stamp \in [Nodes -> 0..MaxStamp]
  /\ time_after \in [Nodes -> [Freqs -> Nat]]

Total(n) == SumOf(time_after[n], Freqs)

TotalsInv ==
  /\ TimesOK
  /\ phase = "processing" => \A n \in Nodes : Total(n) = Total(PackageOf[n])

LEMMA NoTotals == \A n \in Nodes : SumOf(NoTime[n], Freqs) = 0
<1> SUFFICES ASSUME NEW n \in Nodes PROVE SumOf(NoTime[n], Freqs) = 0  OBVIOUS
<1>1. \A f \in Freqs : NoTime[n][f] = 0  BY DEF NoTime
<1>2. SumOf(NoTime[n], Freqs) = SumOf(NoTime[n], {})
  <2>1. IsFiniteSet(Freqs) /\ {} \in SUBSET Freqs  BY FreqsAssumption
  <2>2. \A f \in Freqs : NoTime[n][f] \in Int  BY <1>1
  <2> QED  BY <1>1, <2>1, <2>2, SumOfPart
<1> QED  BY <1>2, SumOfNone

\* Each node that a record reaches gets the same time.
LEMMA RecordKeepsTotals ==
  ASSUME Inv, TotalsInv, NEW c \in Cpus, NEW time \in Stamps, NEW isIdle \in BOOLEAN, NEW freq \in Freqs,
         FreqUpdated(c, time, isIdle, freq)
  PROVE  TotalsInv'
<1> DEFINE package == parent[parent[c]]
           reached(n) == PackageOf[n] = package
<1>1. /\ phase = "processing" /\ phase' = phase
      /\ \A n \in Nodes : last_stamp[n] <= time
      /\ last_stamp' = [n \in Nodes |-> IF n \in Reached(package) THEN time ELSE last_stamp[n]]
      /\ time_after' = [n \in Nodes |-> IF n \in Reached(package)
           THEN [time_after[n] EXCEPT ![ChargedFrequency(n)] = @ + TimeDelta(n, time)]
           ELSE time_after[n]]
  BY DEF FreqUpdated, ChangeEffectiveFrequency, InOrder
<1>2. \A n \in Nodes : n \in Reached(package) <=> PackageOf[n] = package  BY DEF Reached
<1>3. time \in 1..MaxStamp /\ MaxStamp \in Nat /\ time \in Nat  BY ReadingsAssumption DEF Stamps
<1>4. \A n \in Nodes : ChargedFrequency(n) \in Freqs
  BY FreqsAssumption DEF ChargedFrequency, Inv, FrequencyTypes
<1>5. \A n \in Nodes : last_stamp[n] \in 0..MaxStamp /\ time_after[n] \in [Freqs -> Nat]
  BY DEF TotalsInv, TimesOK
<1>6. \A n \in Nodes : TimeDelta(n, time) \in Nat  BY <1>1, <1>3, <1>5 DEF TimeDelta
<1>7. TimesOK'
  <2>1. last_stamp' \in [Nodes -> 0..MaxStamp]  BY <1>1, <1>3, <1>5
  <2>2. ASSUME NEW n \in Nodes PROVE time_after'[n] \in [Freqs -> Nat]
    <3> HIDE DEF package
    <3> QED  BY <1>1, <1>4, <1>5, <1>6
  <2> QED  BY <1>1, <2>1, <2>2 DEF TimesOK
<1>8. ASSUME NEW n \in Nodes
      PROVE  Total(n)' = IF PackageOf[n] = package THEN Total(n) + TimeDelta(n, time) ELSE Total(n)
  <2>1. CASE PackageOf[n] # package
    <3>1. time_after'[n] = time_after[n]  BY <1>1, <1>2, <2>1
    <3> QED  BY <2>1, <3>1 DEF Total
  <2>2. CASE PackageOf[n] = package
    <3> DEFINE f == ChargedFrequency(n)
               before == time_after[n]
               after == time_after'[n]
    <3>1. after = [before EXCEPT ![f] = before[f] + TimeDelta(n, time)]  BY <1>1, <1>2, <2>2
    <3>2. f \in Freqs /\ before \in [Freqs -> Nat] /\ after \in [Freqs -> Nat] /\ TimeDelta(n, time) \in Nat
      BY <1>4, <1>5, <1>6, <1>7 DEF TimesOK
    <3> HIDE DEF f, before, after
    <3>3. \A g \in Freqs : after[g] = IF g = f THEN before[g] + TimeDelta(n, time) ELSE before[g]
      BY <3>1, <3>2
    <3>4. IsFiniteSet(Freqs) /\ f \in Freqs /\ \A g \in Freqs : before[g] \in Int
      BY <3>2, FreqsAssumption
    <3>5. SumOf(after, Freqs) = SumOf(before, Freqs) + TimeDelta(n, time)
      BY <3>2, <3>3, <3>4, SumChange
    <3> QED  BY <2>2, <3>5 DEF Total, before, after
  <2> QED  BY <2>1, <2>2
<1>9. ASSUME NEW n \in Nodes PROVE Total(n)' = Total(PackageOf[n])'
  <2>1. PackageOf[n] \in Nodes /\ PackageOf[PackageOf[n]] = PackageOf[n]  BY Tree
  <2>2. Total(n) = Total(PackageOf[n])  BY <1>1 DEF TotalsInv
  <2>3. last_stamp[n] = last_stamp[PackageOf[n]]  BY <1>1 DEF Inv, NodeOK
  <2>4. TimeDelta(n, time) = TimeDelta(PackageOf[n], time)  BY <2>3 DEF TimeDelta
  <2>5. /\ Total(n)' = IF PackageOf[n] = package THEN Total(n) + TimeDelta(n, time) ELSE Total(n)
        /\ Total(PackageOf[n])' = IF PackageOf[n] = package
                                  THEN Total(PackageOf[n]) + TimeDelta(PackageOf[n], time)
                                  ELSE Total(PackageOf[n])
    BY <1>8, <2>1
  <2> HIDE DEF package
  <2> QED  BY <2>2, <2>4, <2>5
<1>10. PackageOf' = PackageOf  BY DEF PackageOf, Nodes
<1> QED  BY <1>7, <1>9 DEF TotalsInv

LEMMA Finite ==
  /\ IsFiniteSet(Cpus) /\ IsFiniteSet(Cores)
  /\ \A n \in Nodes : IsFiniteSet(Children[n]) /\ IsFiniteSet(CpusBelow[n])
<1>1. IsFiniteSet(Cores \cup Cpus)  BY TreeAssumption, FS_Union
<1>2. \A n \in Nodes : Children[n] \in SUBSET (Cores \cup Cpus) /\ CpusBelow[n] \in SUBSET Cpus
  BY DEF Children, CpusBelow
<1> QED  BY <1>1, <1>2, TreeAssumption, FS_Subset

\* The kernel's times are added to the right nodes and are not negative.
LEMMA BootKeepsTimes ==
  ASSUME TimesOK, NEW boot \in [Cpus -> Readings]
  PROVE  TimeFromBoot(boot) \in [Nodes -> [Freqs -> Nat]]
<1> DEFINE ofCpus  == [c \in Cpus |-> [f \in Freqs |-> time_after[c][f] + IF f = 0 THEN 0 ELSE boot[c]]]
           ofCores == [k \in Cores |-> [f \in Freqs |->
                        time_after[k][f] + SumOf([m \in Children[k] |-> ofCpus[m][f]], Children[k])]]
           ofPackages == [p \in Packages |-> [f \in Freqs |->
                        time_after[p][f] + SumOf([m \in Children[p] |-> ofCores[m][f]], Children[p])]]
<1>1. \A n \in Nodes, f \in Freqs : time_after[n][f] \in Nat  BY DEF TimesOK
<1>2. \A c \in Cpus : boot[c] \in Nat  BY ReadingsAssumption
<1>3. \A c \in Cpus, f \in Freqs : ofCpus[c][f] \in Nat  BY <1>1, <1>2, Tree
<1>4. ASSUME NEW k \in Cores, NEW f \in Freqs PROVE ofCores[k][f] \in Nat
  <2> DEFINE x == [m \in Children[k] |-> ofCpus[m][f]]
  <2>1. \A m \in Children[k] : m \in Cpus  BY ChildrenAre
  <2> HIDE DEF ofCpus
  <2>2. \A m \in Children[k] : x[m] \in Nat  BY <1>3, <2>1
  <2>3. IsFiniteSet(Children[k])  BY Finite, Tree
  <2> HIDE DEF x
  <2>4. SumOf(x, Children[k]) \in Nat  BY <2>2, <2>3, SumIsNat
  <2>5. time_after[k][f] \in Nat  BY <1>1, Tree
  <2>6. ofCores[k][f] = time_after[k][f] + SumOf(x, Children[k])  BY DEF x
  <2> QED  BY <2>4, <2>5, <2>6
<1>5. ASSUME NEW p \in Packages, NEW f \in Freqs PROVE ofPackages[p][f] \in Nat
  <2> DEFINE x == [m \in Children[p] |-> ofCores[m][f]]
  <2>1. \A m \in Children[p] : m \in Cores  BY ChildrenAre
  <2> HIDE DEF ofCores
  <2>2. \A m \in Children[p] : x[m] \in Nat  BY <1>4, <2>1
  <2>3. IsFiniteSet(Children[p])  BY Finite, Tree
  <2> HIDE DEF x
  <2>4. SumOf(x, Children[p]) \in Nat  BY <2>2, <2>3, SumIsNat
  <2>5. time_after[p][f] \in Nat  BY <1>1, Tree
  <2>6. ofPackages[p][f] = time_after[p][f] + SumOf(x, Children[p])  BY DEF x
  <2> QED  BY <2>4, <2>5, <2>6
<1>6. TimeFromBoot(boot) = [n \in Nodes |->
        CASE n \in Cpus     -> ofCpus[n]
          [] n \in Cores    -> ofCores[n]
          [] n \in Packages -> [f \in Freqs |->
               time_after[n][f] + SumOf([m \in Children[n] |-> ofCores[m][f]], Children[n])]]
  BY DEF TimeFromBoot
<1>7. \A p \in Packages : ofPackages[p] = [f \in Freqs |->
               time_after[p][f] + SumOf([m \in Children[p] |-> ofCores[m][f]], Children[p])]
  OBVIOUS
<1>8. /\ \A c \in Cpus : ofCpus[c] \in [Freqs -> Nat]
      /\ \A k \in Cores : ofCores[k] \in [Freqs -> Nat]
      /\ \A p \in Packages : ofPackages[p] \in [Freqs -> Nat]
  <2>1. \A c \in Cpus : DOMAIN ofCpus[c] = Freqs /\ ofCpus[c] = [f \in Freqs |-> ofCpus[c][f]]  OBVIOUS
  <2>2. \A k \in Cores : ofCores[k] = [f \in Freqs |-> ofCores[k][f]]  OBVIOUS
  <2>3. \A p \in Packages : ofPackages[p] = [f \in Freqs |-> ofPackages[p][f]]  OBVIOUS
  <2> HIDE DEF ofCpus, ofCores, ofPackages
  <2> QED  BY <1>3, <1>4, <1>5, <2>1, <2>2, <2>3
<1> HIDE DEF ofCpus, ofCores, ofPackages
<1>9. ASSUME NEW n \in Nodes PROVE TimeFromBoot(boot)[n] \in [Freqs -> Nat]
  <2>1. CASE n \in Cpus
    <3>1. n \notin Cores /\ n \notin Packages  BY <2>1, Tree
    <3> QED  BY <1>6, <1>8, <2>1, <3>1
  <2>2. CASE n \in Cores
    <3>1. n \notin Cpus /\ n \notin Packages  BY <2>2, Tree
    <3> QED  BY <1>6, <1>8, <2>2, <3>1
  <2>3. CASE n \in Packages
    <3>1. n \notin Cpus /\ n \notin Cores  BY <2>3, Tree
    <3>2. TimeFromBoot(boot)[n] = ofPackages[n]  BY <1>6, <1>7, <2>3, <3>1
    <3> QED  BY <1>8, <2>3, <3>2
  <2> QED  BY <2>1, <2>2, <2>3 DEF Nodes
<1> QED  BY <1>6, <1>9

LEMMA NextKeepsTotals == Inv /\ TotalsInv /\ [Next]_vars => TotalsInv'
<1> SUFFICES ASSUME Inv, TotalsInv, [Next]_vars PROVE TotalsInv'  OBVIOUS
<1>0. NoTime \in [Nodes -> [Freqs -> Nat]] /\ 0 \in 0..MaxStamp
  BY ReadingsAssumption DEF NoTime
<1>1. CASE \E reading \in [Cpus -> Readings \cup {Unreadable}] : MeasurementStart(reading)
  BY <1>0, <1>1 DEF MeasurementStart, TotalsInv, TimesOK
<1>2. CASE \E reading \in [Cpus -> Readings \cup {Unreadable}], boot \in [Cpus -> Readings] :
             MeasurementEnd(reading, boot)
  <2>1. PICK reading \in [Cpus -> Readings \cup {Unreadable}], boot \in [Cpus -> Readings] :
               MeasurementEnd(reading, boot)
    BY <1>2
  <2>2. /\ phase' = "ended" /\ time_after' = TimeFromBoot(boot) /\ last_stamp' = last_stamp
    BY <2>1 DEF MeasurementEnd
  <2> QED  BY <2>2, BootKeepsTimes DEF TotalsInv, TimesOK
<1>3. CASE ProcessCpuData
  <2>1. phase' = "processing" /\ time_after' = NoTime /\ last_stamp' = last_stamp
    BY <1>3 DEF ProcessCpuData, ResetPstateData
  <2>2. \A n \in Nodes : Total(n)' = 0  BY <2>1, NoTotals DEF Total
  <2>3. \A n \in Nodes : Total(n)' = Total(PackageOf[n])'
    <3>1. \A n \in Nodes : PackageOf[n] \in Nodes  BY Tree
    <3>2. ASSUME NEW n \in Nodes PROVE Total(n)' = Total(PackageOf[n])'
      <4>1. Total(PackageOf[n])' = 0
        <5>1. SumOf(NoTime[PackageOf[n]], Freqs) = 0  BY <3>1, NoTotals
        <5> QED  BY <2>1, <5>1 DEF Total
      <4> QED  BY <2>2, <4>1
    <3> QED  BY <3>2
  <2> QED  BY <1>0, <2>1, <2>3 DEF TotalsInv, TimesOK
<1>4. CASE \E c \in Cpus, time \in Stamps : HandleTracePoint(c, time)
  BY <1>4, RecordIs, RecordKeepsTotals
<1>5. CASE EndCpuData
  BY <1>0, <1>5 DEF EndCpuData, ResetPstateData, TotalsInv, TimesOK
<1>6. CASE UNCHANGED vars
  BY <1>6 DEF vars, frequencyVars, TotalsInv, TimesOK, Total
<1> QED  BY <1>1, <1>2, <1>3, <1>4, <1>5, <1>6 DEF Next

LEMMA AlwaysTotals == Spec => []TotalsInv
<1>1. Init => TotalsInv
  BY ReadingsAssumption DEF Init, TotalsInv, TimesOK, NoTime
<1> QED  BY <1>1, AlwaysInv, NextKeepsTotals, PTL DEF Spec

\* All columns of a package are percentages of the same time, although each node
\* keeps its own stamp (abstract_cpu::change_effective_frequency, cpu.cpp).
THEOREM TotalsAgree == Spec => []SameTotals
<1>1. Inv /\ TotalsInv => SameTotals
  <2> SUFFICES ASSUME Inv, TotalsInv, phase = "processing",
                      NEW n \in Nodes, NEW m \in Nodes, PackageOf[n] = PackageOf[m]
               PROVE  last_stamp[n] = last_stamp[m] /\ SumOf(time_after[n], Freqs) = SumOf(time_after[m], Freqs)
    BY DEF SameTotals
  <2>1. last_stamp[n] = last_stamp[PackageOf[n]] /\ last_stamp[m] = last_stamp[PackageOf[m]]
    BY DEF Inv, NodeOK
  <2>2. Total(n) = Total(PackageOf[n]) /\ Total(m) = Total(PackageOf[m])  BY DEF TotalsInv
  <2>3. SumOf(time_after[PackageOf[n]], Freqs) = SumOf(time_after[PackageOf[m]], Freqs)  OBVIOUS
  <2> QED  BY <2>1, <2>2, <2>3 DEF Total
<1> QED  BY <1>1, AlwaysInv, AlwaysTotals, PTL
-----------------------------------------------------------------------------
(***************************************************************************)
(* Residencies.                                                            *)
(***************************************************************************)
\* What CPUs can have read: a state that was not there at the start has no counts.
ReadOnce(state) ==
  /\ state \in Counts
  /\ state.before_count \in {0, 1} /\ state.after_count \in {0, 1}
  /\ state.before_count = 0 => state = NoCounts
  /\ state.after_count = 0 => state.duration_after = 0
  /\ state.after_count = 1 => state.duration_after >= state.duration_before

\* What is shown for such a CPU.
LEMMA DeltaOfCpu ==
  ASSUME NEW state, ReadOnce(state)
  PROVE  Delta(state) \in Nat
<1>1. CASE state.after_count = 0  BY <1>1 DEF Delta
<1>2. CASE state.after_count = 1
  <2>1. state.duration_after - state.duration_before \in Nat  BY <1>2 DEF ReadOnce, Counts
  <2>2. \A k \in Nat : k \div 1 = k  OBVIOUS
  <2> QED  BY <1>2, <2>1, <2>2 DEF Delta
<1> QED  BY <1>1, <1>2 DEF ReadOnce

\* The sums over a set of CPUs or cores.
SummedOver(states, B) ==
  [duration_before |-> SumOf([m \in B |-> states[m].duration_before], B),
   duration_after  |-> SumOf([m \in B |-> states[m].duration_after], B),
   before_count    |-> SumOf([m \in B |-> states[m].before_count], B),
   after_count     |-> SumOf([m \in B |-> states[m].after_count], B)]

\* Those that had the state when the measurement started.
Had(states, B) == {c \in B : states[c].before_count = 1}

\* Sums over CPUs that have read their counters once, or not at all.
LEMMA MeanOfSums ==
  ASSUME NEW B, IsFiniteSet(B), NEW states, \A c \in B : ReadOnce(states[c]),
         NEW delta, \A c \in B : delta[c] = Delta(states[c]),
         NEW counted, counted = Had(states, B)
  PROVE  /\ SummedOver(states, B) \in Counts
         /\ Delta(SummedOver(states, B)) =
              IF counted # {} /\ \A c \in counted : states[c].after_count = 1
              THEN SumOf(delta, counted) \div Cardinality(counted)
              ELSE 0
         /\ Delta(SummedOver(states, B)) \in Nat
<1> DEFINE before  == [c \in B |-> states[c].duration_before]
           after   == [c \in B |-> states[c].duration_after]
           befores == [c \in B |-> states[c].before_count]
           afters  == [c \in B |-> states[c].after_count]
           sum == SummedOver(states, B)
<1>a. sum = [duration_before |-> SumOf(before, B), duration_after |-> SumOf(after, B),
             before_count |-> SumOf(befores, B), after_count |-> SumOf(afters, B)]
  BY DEF SummedOver
<1>b. /\ \A c \in B : before[c] = states[c].duration_before
      /\ \A c \in B : after[c] = states[c].duration_after
      /\ \A c \in B : befores[c] = states[c].before_count
      /\ \A c \in B : afters[c] = states[c].after_count
      /\ counted = {c \in B : befores[c] = 1}
  BY DEF Had
<1> HIDE DEF before, after, befores, afters, sum
<1>0. \A c \in B : /\ before[c] \in Nat /\ after[c] \in Nat /\ befores[c] \in {0, 1} /\ afters[c] \in {0, 1}
                   /\ befores[c] = 0 => before[c] = 0 /\ after[c] = 0 /\ afters[c] = 0
                   /\ afters[c] = 1 => after[c] >= before[c]
  BY <1>b DEF ReadOnce, Counts, NoCounts
<1>1. counted = {c \in B : befores[c] = 1} /\ counted \in SUBSET B  BY <1>b
<1>2. IsFiniteSet(counted)  BY <1>1, FS_Subset
<1>3. /\ \A c \in B : before[c] \in Nat /\ before[c] \in Int
      /\ \A c \in B : after[c] \in Nat /\ after[c] \in Int
      /\ \A c \in B : befores[c] \in Nat /\ befores[c] \in Int
      /\ \A c \in B : afters[c] \in Nat /\ afters[c] \in Int
  BY <1>0
<1>4. /\ SumOf(before, B) \in Nat /\ SumOf(after, B) \in Nat
      /\ SumOf(befores, B) \in Nat /\ SumOf(afters, B) \in Nat
  BY <1>3, SumIsNat
<1>5. sum \in Counts  BY <1>4, <1>a DEF Counts
<1>6. \A c \in B \ counted : befores[c] = 0 /\ before[c] = 0 /\ after[c] = 0 /\ afters[c] = 0
  BY <1>0, <1>1
<1>7. /\ SumOf(before, B) = SumOf(before, counted) /\ SumOf(after, B) = SumOf(after, counted)
      /\ SumOf(befores, B) = SumOf(befores, counted) /\ SumOf(afters, B) = SumOf(afters, counted)
  <2>1. SumOf(before, B) = SumOf(before, counted)  BY <1>1, <1>3, <1>6, SumOfPart
  <2>2. SumOf(after, B) = SumOf(after, counted)  BY <1>1, <1>3, <1>6, SumOfPart
  <2>3. SumOf(befores, B) = SumOf(befores, counted)  BY <1>1, <1>3, <1>6, SumOfPart
  <2>4. SumOf(afters, B) = SumOf(afters, counted)  BY <1>1, <1>3, <1>6, SumOfPart
  <2> QED  BY <2>1, <2>2, <2>3, <2>4
<1>8. SumOf(befores, counted) = Cardinality(counted)
  <2>1. \A c \in counted : befores[c] = 1  BY <1>1
  <2> QED  BY <1>2, <2>1, SumOfOnes
<1>9. Cardinality(counted) \in Nat /\ (Cardinality(counted) = 0 <=> counted = {})
  BY <1>2, FS_CardinalityType, FS_EmptySet
<1> DEFINE n == Cardinality(counted)
<1>10. Delta(sum) = IF SumOf(afters, counted) = 0 \/ SumOf(afters, counted) # n THEN 0
                    ELSE (SumOf(after, counted) - SumOf(before, counted)) \div SumOf(afters, counted)
  BY <1>7, <1>8, <1>a DEF Delta
<1>11. CASE counted # {} /\ \A c \in counted : states[c].after_count = 1
  <2>1. \A c \in counted : afters[c] = 1  BY <1>1, <1>11, <1>b
  <2>2. SumOf(afters, counted) = n  BY <1>2, <2>1, SumOfOnes
  <2>3. ASSUME NEW c \in counted PROVE delta[c] = after[c] - before[c] /\ delta[c] \in Nat
    <3>1. /\ states[c].after_count = 1 /\ states[c].before_count = 1 /\ c \in B
          /\ after[c] = states[c].duration_after /\ before[c] = states[c].duration_before
      BY <1>1, <1>11, <1>b
    <3>2. delta[c] = (after[c] - before[c]) \div 1  BY <3>1 DEF Delta
    <3>3. after[c] - before[c] \in Nat /\ \A k \in Nat : k \div 1 = k
      BY <1>0, <2>1, <3>1
    <3> QED  BY <3>2, <3>3
  <2>4. \A c \in counted : after[c] \in Int /\ before[c] \in Int /\ delta[c] = after[c] - before[c]
    BY <1>1, <1>3, <2>3
  <2>5. SumOf(delta, counted) = SumOf(after, counted) - SumOf(before, counted)
    BY ONLY <1>2, <2>4, SumMinus
  <2>6. SumOf(delta, counted) \in Nat  BY <1>2, <2>3, SumIsNat
  <2>7. n \in Nat /\ n # 0  BY <1>9, <1>11
  <2>8. Delta(sum) = SumOf(delta, counted) \div n  BY <1>10, <2>2, <2>5, <2>7
  <2> HIDE DEF n
  <2>9. SumOf(delta, counted) \div n \in Nat
    <3> SUFFICES ASSUME NEW a \in Nat, NEW b \in Nat, b # 0 PROVE a \div b \in Nat
      BY <2>6, <2>7
    <3> QED  OBVIOUS
  <2> QED  BY <1>5, <1>11, <2>8, <2>9 DEF n, sum
<1>12. CASE ~(counted # {} /\ \A c \in counted : states[c].after_count = 1)
  <2>1. CASE counted = {}
    <3>1. SumOf(afters, counted) = 0  BY <2>1, SumOfNone
    <3>2. Delta(sum) = 0  BY <1>10, <3>1
    <3> QED  BY <1>5, <1>12, <3>2 DEF sum
  <2>2. ASSUME NEW c \in counted, states[c].after_count # 1
        PROVE  SumOf(afters, counted) # n
    <3> DEFINE rest == counted \ {c}
    <3>1. afters[c] = 0 /\ befores[c] = 1  BY <1>0, <1>1, <1>b, <2>2
    <3>2. IsFiniteSet(rest) /\ Cardinality(rest) = n - 1 /\ n \in Nat
      BY <1>2, <1>9, FS_RemoveElement
    <3>3. SumOf(afters, counted) = 0 + SumOf(afters, rest)
      BY <1>1, <1>2, <1>3, <3>1, SumRest
    <3>4. \A d \in rest : afters[d] \in Int /\ befores[d] \in Int /\ afters[d] <= befores[d] /\ befores[d] = 1
      BY <1>0, <1>1
    <3> HIDE DEF rest, n
    <3>5. SumOf(afters, rest) <= SumOf(befores, rest) /\ SumOf(afters, rest) \in Int
      BY <3>2, <3>4, SumMonotone, SumRest
    <3>6. SumOf(befores, rest) = n - 1  BY <3>2, <3>4, SumOfOnes
    <3> QED  BY <3>2, <3>3, <3>5, <3>6
  <2>3. CASE counted # {}
    <3>1. Delta(sum) = 0  BY <1>10, <1>12, <2>2, <2>3
    <3> QED  BY <1>5, <1>12, <3>1 DEF sum
  <2> QED  BY <2>1, <2>3
<1> QED  BY <1>11, <1>12

\* What the cores of a package add up over their CPUs is a sum over its CPUs.
LEMMA SumTwice ==
  ASSUME NEW p \in Packages, NEW f, \A c \in Cpus : f[c] \in Int,
         NEW g, \A k \in Children[p] : g[k] = SumOf([c \in Children[k] |-> f[c]], Children[k])
  PROVE  SumOf([k \in Children[p] |-> g[k]], Children[p])
           = SumOf([c \in CpusBelow[p] |-> f[c]], CpusBelow[p])
<1> DEFINE K == Children[p]
           S == CpusBelow[p]
           owner == [c \in S |-> parent[c]]
           ff == [c \in S |-> f[c]]
           gg == [k \in K |-> g[k]]
<1>1. K = {k \in Cores : parent[k] = p} /\ S = {c \in Cpus : parent[parent[c]] = p}
  BY ChildrenAre, BelowIs
<1>2. IsFiniteSet(K) /\ IsFiniteSet(S)  BY Finite, Tree
<1>3. \A c \in S : owner[c] \in K /\ ff[c] \in Int  BY <1>1, Tree
<1>4. ASSUME NEW k \in K PROVE gg[k] = SumOf(ff, Owned(S, owner, k))
  <2> DEFINE B == Children[k]
             fk == [c \in B |-> f[c]]
  <2>1. k \in Cores /\ parent[k] = p  BY <1>1
  <2>2. B = {c \in Cpus : parent[c] = k}  BY <2>1, ChildrenAre
  <2>3. B = Owned(S, owner, k)  BY <1>1, <2>1, <2>2 DEF Owned
  <2>4. IsFiniteSet(B)  BY <2>1, Finite, Tree
  <2>5. \A c \in B : fk[c] \in Int /\ fk[c] = ff[c]  BY <2>2, <2>3 DEF Owned
  <2>6. gg[k] = SumOf(fk, B)  OBVIOUS
  <2> HIDE DEF B, fk, ff, gg, S, K
  <2>7. SumOf(fk, B) = SumOf(ff, B)  BY <2>4, <2>5, SumSame
  <2> QED  BY <2>3, <2>6, <2>7
<1> HIDE DEF K, S, owner, ff, gg
<1>5. SumOf(gg, K) = SumOf(ff, S)
  <2>1. IsFiniteSet(K)  BY <1>2
  <2>2. IsFiniteSet(S)  BY <1>2
  <2>3. \A c \in S : owner[c] \in K  BY <1>3
  <2>4. \A c \in S : ff[c] \in Int  BY <1>3
  <2>5. \A k \in K : gg[k] = SumOf(ff, Owned(S, owner, k))  BY <1>4
  <2> QED  BY ONLY <2>1, <2>2, <2>3, <2>4, <2>5, SumOfSums
<1> QED  BY <1>5 DEF K, S, ff, gg

\* At the end of a measurement a core or package has the sums over its CPUs.
LEMMA MergedIsSummed ==
  ASSUME NEW states, \A c \in Cpus : states[c] \in Counts,
         NEW cores, cores = [k \in Cores |-> Merged(states, k)]
  PROVE  /\ \A k \in Cores : Merged(states, k) = SummedOver(states, CpusBelow[k])
         /\ \A p \in Packages : Merged(cores, p) = SummedOver(states, CpusBelow[p])
<1>1. ASSUME NEW k \in Cores PROVE Merged(states, k) = SummedOver(states, CpusBelow[k])
  <2>1. Children[k] = CpusBelow[k]  BY ChildrenAre, BelowIs
  <2> QED  BY <2>1 DEF Merged, SummedOver
<1>2. ASSUME NEW p \in Packages PROVE Merged(cores, p) = SummedOver(states, CpusBelow[p])
  <2> DEFINE K == Children[p]
             S == CpusBelow[p]
  <2>1. \A c \in Cpus : /\ states[c].duration_before \in Int /\ states[c].duration_after \in Int
                        /\ states[c].before_count \in Int /\ states[c].after_count \in Int
    BY DEF Counts
  <2>2. \A k \in K : k \in Cores  BY ChildrenAre
  <2>3. \A k \in K : \A c \in Children[k] : c \in Cpus  BY <2>2, ChildrenAre
  <2>4. \A c \in S : c \in Cpus  BY BelowIs
  <2>5. \A k \in K :
          /\ cores[k].duration_before = SumOf([c \in Children[k] |-> states[c].duration_before], Children[k])
          /\ cores[k].duration_after = SumOf([c \in Children[k] |-> states[c].duration_after], Children[k])
          /\ cores[k].before_count = SumOf([c \in Children[k] |-> states[c].before_count], Children[k])
          /\ cores[k].after_count = SumOf([c \in Children[k] |-> states[c].after_count], Children[k])
    BY <2>2 DEF Merged
  <2>6. SumOf([k \in K |-> cores[k].duration_before], K) = SumOf([c \in S |-> states[c].duration_before], S)
    <3> DEFINE f == [c \in Cpus |-> states[c].duration_before]
               g == [k \in K |-> cores[k].duration_before]
    <3>1. \A c \in Cpus : f[c] \in Int  BY <2>1
    <3>2. \A k \in K : [c \in Children[k] |-> f[c]] = [c \in Children[k] |-> states[c].duration_before]
      BY <2>3
    <3>3. \A k \in K : g[k] = SumOf([c \in Children[k] |-> f[c]], Children[k])
      BY <2>5, <3>2
    <3>4. [c \in S |-> f[c]] = [c \in S |-> states[c].duration_before]  BY <2>4
    <3>5. [k \in K |-> g[k]] = [k \in K |-> cores[k].duration_before]  OBVIOUS
    <3> HIDE DEF f, g
    <3>6. SumOf([k \in K |-> g[k]], K) = SumOf([c \in S |-> f[c]], S)  BY <3>1, <3>3, SumTwice
    <3> QED  BY <3>4, <3>5, <3>6
  <2>7. SumOf([k \in K |-> cores[k].duration_after], K) = SumOf([c \in S |-> states[c].duration_after], S)
    <3> DEFINE f == [c \in Cpus |-> states[c].duration_after]
               g == [k \in K |-> cores[k].duration_after]
    <3>1. \A c \in Cpus : f[c] \in Int  BY <2>1
    <3>2. \A k \in K : [c \in Children[k] |-> f[c]] = [c \in Children[k] |-> states[c].duration_after]
      BY <2>3
    <3>3. \A k \in K : g[k] = SumOf([c \in Children[k] |-> f[c]], Children[k])
      BY <2>5, <3>2
    <3>4. [c \in S |-> f[c]] = [c \in S |-> states[c].duration_after]  BY <2>4
    <3>5. [k \in K |-> g[k]] = [k \in K |-> cores[k].duration_after]  OBVIOUS
    <3> HIDE DEF f, g
    <3>6. SumOf([k \in K |-> g[k]], K) = SumOf([c \in S |-> f[c]], S)  BY <3>1, <3>3, SumTwice
    <3> QED  BY <3>4, <3>5, <3>6
  <2>8. SumOf([k \in K |-> cores[k].before_count], K) = SumOf([c \in S |-> states[c].before_count], S)
    <3> DEFINE f == [c \in Cpus |-> states[c].before_count]
               g == [k \in K |-> cores[k].before_count]
    <3>1. \A c \in Cpus : f[c] \in Int  BY <2>1
    <3>2. \A k \in K : [c \in Children[k] |-> f[c]] = [c \in Children[k] |-> states[c].before_count]
      BY <2>3
    <3>3. \A k \in K : g[k] = SumOf([c \in Children[k] |-> f[c]], Children[k])
      BY <2>5, <3>2
    <3>4. [c \in S |-> f[c]] = [c \in S |-> states[c].before_count]  BY <2>4
    <3>5. [k \in K |-> g[k]] = [k \in K |-> cores[k].before_count]  OBVIOUS
    <3> HIDE DEF f, g
    <3>6. SumOf([k \in K |-> g[k]], K) = SumOf([c \in S |-> f[c]], S)  BY <3>1, <3>3, SumTwice
    <3> QED  BY <3>4, <3>5, <3>6
  <2>9. SumOf([k \in K |-> cores[k].after_count], K) = SumOf([c \in S |-> states[c].after_count], S)
    <3> DEFINE f == [c \in Cpus |-> states[c].after_count]
               g == [k \in K |-> cores[k].after_count]
    <3>1. \A c \in Cpus : f[c] \in Int  BY <2>1
    <3>2. \A k \in K : [c \in Children[k] |-> f[c]] = [c \in Children[k] |-> states[c].after_count]
      BY <2>3
    <3>3. \A k \in K : g[k] = SumOf([c \in Children[k] |-> f[c]], Children[k])
      BY <2>5, <3>2
    <3>4. [c \in S |-> f[c]] = [c \in S |-> states[c].after_count]  BY <2>4
    <3>5. [k \in K |-> g[k]] = [k \in K |-> cores[k].after_count]  OBVIOUS
    <3> HIDE DEF f, g
    <3>6. SumOf([k \in K |-> g[k]], K) = SumOf([c \in S |-> f[c]], S)  BY <3>1, <3>3, SumTwice
    <3> QED  BY <3>4, <3>5, <3>6
  <2> QED  BY <2>6, <2>7, <2>8, <2>9 DEF Merged, SummedOver
<1> QED  BY <1>1, <1>2

\* Before and after the counters are read a second time: a CPU has the state once
\* or not at all, and what it has not read is 0.
MeasuringOK ==
  phase = "measuring" =>
    \A c \in Cpus :
      /\ cstates[c].before_count \in {0, 1}
      /\ cstates[c].after_count = 0 /\ cstates[c].duration_after = 0
      /\ cstates[c].before_count = 0 => cstates[c] = NoCounts

CountsInv ==
  /\ cstates \in [Nodes -> Counts]
  /\ duration_delta \in [Nodes -> Nat]
  /\ MeasuringOK
  /\ ResidencyIsMean

LEMMA StartKeepsCounts ==
  ASSUME NEW reading \in [Cpus -> Readings \cup {Unreadable}], MeasurementStart(reading)
  PROVE  CountsInv'
<1>1. phase' = "measuring"  BY DEF MeasurementStart
<1>2. ResidencyIsMean'  BY <1>1 DEF ResidencyIsMean
<1>3. cstates' = [n \in Nodes |-> IF n \in Cpus THEN Inserted(reading[n]) ELSE NoCounts]
  BY DEF MeasurementStart
<1>4. duration_delta' \in [Nodes -> Nat]  BY DEF MeasurementStart
<1>5. NoCounts \in Counts  BY DEF NoCounts, Counts
<1>6. ASSUME NEW c \in Cpus
      PROVE  /\ Inserted(reading[c]) \in Counts
             /\ Inserted(reading[c]).before_count \in {0, 1}
             /\ Inserted(reading[c]).after_count = 0 /\ Inserted(reading[c]).duration_after = 0
             /\ Inserted(reading[c]).before_count = 0 => Inserted(reading[c]) = NoCounts
  <2>1. CASE reading[c] = Unreadable
    BY <1>5, <2>1 DEF Inserted, NoCounts
  <2>2. CASE reading[c] # Unreadable
    <3>1. reading[c] \in Nat  BY <2>2, ReadingsAssumption
    <3>2. Inserted(reading[c]) =
            [duration_before |-> reading[c], duration_after |-> 0, before_count |-> 1, after_count |-> 0]
      BY <2>2 DEF Inserted, NoCounts
    <3> QED  BY <3>1, <3>2 DEF Counts
  <2> QED  BY <2>1, <2>2
<1>7. cstates' \in [Nodes -> Counts]  BY <1>3, <1>5, <1>6
<1>8. \A c \in Cpus : cstates'[c] = Inserted(reading[c])  BY <1>3, Tree
<1>9. MeasuringOK'  BY <1>6, <1>8 DEF MeasuringOK
<1> QED  BY <1>2, <1>4, <1>7, <1>9 DEF CountsInv

EndState(ofCpus, ofCores, n) ==
  CASE n \in Cpus     -> ofCpus[n]
    [] n \in Cores    -> ofCores[n]
    [] n \in Packages -> Merged(ofCores, n)

LEMMA EndKeepsCounts ==
  ASSUME CountsInv, NEW reading \in [Cpus -> Readings \cup {Unreadable}], NEW boot,
         MeasurementEnd(reading, boot)
  PROVE  CountsInv'
<1> DEFINE ofCpus  == [c \in Cpus |-> Finalized(cstates[c], reading[c])]
           ofCores == [k \in Cores |-> Merged(ofCpus, k)]
<1>1. /\ phase = "measuring" /\ phase' = "ended"
      /\ \A c \in Cpus : reading[c] # Unreadable => reading[c] >= cstates[c].duration_before
      /\ cstates' = [n \in Nodes |->
            CASE n \in Cpus     -> ofCpus[n]
              [] n \in Cores    -> ofCores[n]
              [] n \in Packages -> Merged(ofCores, n)]
      /\ duration_delta' = [n \in Nodes |-> Delta(cstates'[n])]
  BY DEF MeasurementEnd
<1>2. ASSUME NEW c \in Cpus PROVE ReadOnce(ofCpus[c])
  <2>1. /\ cstates[c] \in Counts /\ cstates[c].before_count \in {0, 1}
        /\ cstates[c].after_count = 0 /\ cstates[c].duration_after = 0
        /\ cstates[c].before_count = 0 => cstates[c] = NoCounts
    BY <1>1, Tree DEF CountsInv, MeasuringOK
  <2>2. CASE reading[c] = Unreadable \/ cstates[c].before_count = 0
    BY <2>1, <2>2 DEF Finalized, ReadOnce
  <2>3. CASE ~(reading[c] = Unreadable \/ cstates[c].before_count = 0)
    <3>1. reading[c] \in Nat /\ reading[c] >= cstates[c].duration_before
      BY <1>1, <2>3, ReadingsAssumption
    <3>2. ofCpus[c] = [cstates[c] EXCEPT !.duration_after = reading[c], !.after_count = 1]
      BY <2>3 DEF Finalized
    <3>3. /\ ofCpus[c] \in Counts /\ ofCpus[c].before_count = 1 /\ ofCpus[c].after_count = 1
          /\ ofCpus[c].duration_after = reading[c]
          /\ ofCpus[c].duration_before = cstates[c].duration_before
      BY <2>1, <2>3, <3>1, <3>2 DEF Counts
    <3> HIDE DEF ofCpus
    <3> QED  BY <3>1, <3>3 DEF ReadOnce
  <2> QED  BY <2>2, <2>3
<1>3. \A c \in Cpus : cstates'[c] = ofCpus[c]
  <2>1. \A c \in Cpus : c \in Nodes /\ c \notin Cores /\ c \notin Packages  BY Tree
  <2> HIDE DEF ofCpus, ofCores
  <2> QED  BY <1>1, <2>1
<1>4. \A k \in Cores : cstates'[k] = Merged(ofCpus, k)
  <2>1. \A k \in Cores : k \in Nodes /\ k \notin Cpus /\ k \notin Packages  BY Tree
  <2>2. \A k \in Cores : ofCores[k] = Merged(ofCpus, k)  OBVIOUS
  <2> HIDE DEF ofCpus, ofCores
  <2> QED  BY <1>1, <2>1, <2>2
<1>5. \A p \in Packages : cstates'[p] = Merged(ofCores, p)
  <2>1. \A p \in Packages : p \in Nodes /\ p \notin Cpus /\ p \notin Cores  BY Tree
  <2> HIDE DEF ofCpus, ofCores
  <2> QED  BY <1>1, <2>1
<1>6. \A n \in Cores \cup Packages : cstates'[n] = SummedOver(ofCpus, CpusBelow[n])
  <2>1. \A c \in Cpus : ofCpus[c] \in Counts  BY <1>2 DEF ReadOnce
  <2>2. ofCores = [k \in Cores |-> Merged(ofCpus, k)]  OBVIOUS
  <2> HIDE DEF ofCpus, ofCores
  <2> QED  BY <1>4, <1>5, <2>1, <2>2, MergedIsSummed
<1>7. \A n \in Nodes : duration_delta'[n] = Delta(cstates'[n])  BY <1>1
<1> HIDE DEF ofCpus, ofCores
<1>8. ASSUME NEW n \in Cores \cup Packages
      PROVE  LET counted == {c \in CpusBelow[n] : cstates'[c].before_count = 1} IN
             /\ cstates'[n] \in Counts
             /\ duration_delta'[n] =
                  IF counted # {} /\ \A c \in counted : cstates'[c].after_count = 1
                  THEN SumOf(duration_delta', counted) \div Cardinality(counted)
                  ELSE 0
             /\ duration_delta'[n] \in Nat
  <2> DEFINE B == CpusBelow[n]
             counted == {c \in B : cstates'[c].before_count = 1}
  <2>1. n \in Nodes  BY DEF Nodes
  <2>2. IsFiniteSet(B)  BY <2>1, Finite
  <2>3. \A c \in B : c \in Cpus  BY <2>1, BelowIs
  <2>4. \A c \in B : ReadOnce(ofCpus[c])  BY <1>2, <2>3
  <2>5. \A c \in B : cstates'[c] = ofCpus[c]  BY <1>3, <2>3
  <2>6. \A c \in B : duration_delta'[c] = Delta(ofCpus[c])  BY <1>7, <2>3, <2>5, Tree
  <2>7. counted = Had(ofCpus, B)  BY <2>5 DEF Had
  <2>8. \A c \in counted : cstates'[c].after_count = ofCpus[c].after_count  BY <2>5
  <2>9. cstates'[n] = SummedOver(ofCpus, B) /\ duration_delta'[n] = Delta(cstates'[n])
    BY <1>6, <1>7, <2>1
  <2> HIDE DEF B, counted
  <2>10. /\ SummedOver(ofCpus, B) \in Counts
         /\ Delta(SummedOver(ofCpus, B)) =
              IF counted # {} /\ \A c \in counted : ofCpus[c].after_count = 1
              THEN SumOf(duration_delta', counted) \div Cardinality(counted)
              ELSE 0
         /\ Delta(SummedOver(ofCpus, B)) \in Nat
    BY ONLY <2>2, <2>4, <2>6, <2>7, MeanOfSums
  <2> QED  BY <2>8, <2>9, <2>10 DEF B, counted
<1>9. ASSUME NEW c \in Cpus PROVE cstates'[c] \in Counts /\ duration_delta'[c] \in Nat
  <2>1. ReadOnce(ofCpus[c]) /\ cstates'[c] = ofCpus[c] /\ c \in Nodes  BY <1>2, <1>3, Tree
  <2>2. Delta(ofCpus[c]) \in Nat  BY <2>1, DeltaOfCpu
  <2> QED  BY <1>7, <2>1, <2>2 DEF ReadOnce
<1>10. cstates' \in [Nodes -> Counts] /\ duration_delta' \in [Nodes -> Nat]
  <2>1. \A n \in Nodes : cstates'[n] \in Counts /\ duration_delta'[n] \in Nat
    BY <1>8, <1>9 DEF Nodes
  <2>2. cstates' = [n \in Nodes |-> cstates'[n]]
    <3>1. cstates' = [n \in Nodes |-> EndState(ofCpus, ofCores, n)]  BY <1>1 DEF EndState
    <3> QED  BY ONLY <3>1
  <2>3. duration_delta' = [n \in Nodes |-> duration_delta'[n]]
    <3>1. duration_delta' = [n \in Nodes |-> Delta(cstates'[n])]  BY <1>1
    <3> QED  BY ONLY <3>1
  <2> QED  BY <2>1, <2>2, <2>3
<1>11. ResidencyIsMean'  BY <1>8 DEF ResidencyIsMean
<1>12. MeasuringOK'  BY <1>1 DEF MeasuringOK
<1> QED  BY <1>10, <1>11, <1>12 DEF CountsInv

LEMMA NextKeepsCounts == CountsInv /\ [Next]_vars => CountsInv'
<1> SUFFICES ASSUME CountsInv, [Next]_vars PROVE CountsInv'  OBVIOUS
<1>0. NoCounts \in Counts  BY DEF NoCounts, Counts
<1>1. CASE \E reading \in [Cpus -> Readings \cup {Unreadable}] : MeasurementStart(reading)
  BY <1>1, StartKeepsCounts
<1>2. CASE \E reading \in [Cpus -> Readings \cup {Unreadable}], boot \in [Cpus -> Readings] :
             MeasurementEnd(reading, boot)
  BY <1>2, EndKeepsCounts
<1>3. CASE ProcessCpuData \/ EndCpuData
  <2>1. /\ phase' \in {"processing", "off"} /\ cstates' = [n \in Nodes |-> NoCounts]
        /\ duration_delta' = duration_delta
    BY <1>3 DEF ProcessCpuData, EndCpuData, ResetPstateData
  <2> QED  BY <1>0, <2>1 DEF CountsInv, MeasuringOK, ResidencyIsMean
<1>4. CASE \E c \in Cpus, time \in Stamps : HandleTracePoint(c, time)
  <2>1. phase = "processing" /\ UNCHANGED <<phase, cstateVars>>
    BY <1>4 DEF HandleTracePoint, GoIdle, GoUnidle, ChangeFreq, FreqUpdated
  <2> QED  BY <2>1 DEF cstateVars, CountsInv, MeasuringOK, ResidencyIsMean
<1>5. CASE UNCHANGED vars
  BY <1>5 DEF vars, cstateVars, CountsInv, MeasuringOK, ResidencyIsMean
<1> QED  BY <1>1, <1>2, <1>3, <1>4, <1>5 DEF Next

LEMMA AlwaysCounts == Spec => []CountsInv
<1>1. Init => CountsInv
  BY DEF Init, CountsInv, MeasuringOK, ResidencyIsMean, NoCounts, Counts
<1> QED  BY <1>1, NextKeepsCounts, PTL DEF Spec

\* What is shown for a core's or package's idle state is the mean over its CPUs, or
\* nothing, although the sums go up level by level and CPUs may have gone offline
\* meanwhile (abstract_cpu::measurement_end, finalize_cstate in abstract_cpu.cpp).
THEOREM ResidenciesAreMeans == Spec => []ResidencyIsMean
<1>1. CountsInv => ResidencyIsMean  BY DEF CountsInv
<1> QED  BY <1>1, AlwaysCounts, PTL

\* Times, counts and what is shown of them are never negative, stamps stay those of
\* records and frequencies those of the table, whatever the sequence of
\* measurements and records (abstract_cpu.cpp).
THEOREM FrequencyTypeCorrect == Spec => []TypeOK
<1>1. Inv /\ TotalsInv /\ CountsInv => TypeOK
  BY DEF Inv, FrequencyTypes, TotalsInv, TimesOK, CountsInv, TypeOK
<1> QED  BY <1>1, AlwaysInv, AlwaysTotals, AlwaysCounts, PTL
=============================================================================
