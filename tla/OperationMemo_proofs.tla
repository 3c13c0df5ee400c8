------------------------- MODULE OperationMemo_proofs -------------------------
(***************************************************************************)
(* Proofs about OperationMemo: whatever parsing gives, the memos are not   *)
(* noticed, and what they give serves as an identity.                      *)
(***************************************************************************)
EXTENDS OperationMemo, SequenceTheorems, TLAPS

Instances(name) ==
    [rootId : RootId, variables : VariableValues,
     operation : {Fresh(name, v) : v \in VariableValues}]

\* Each sequence of instances has its type, and no instance is another's.
Distinct(list, name) ==
    /\ list \in Seq(Instances(name))
    /\ \A i \in 1..Len(list) :
         /\ list[i].operation = Fresh(name, list[i].variables)
         /\ list[i].operation # Failed
         /\ \A j \in 1..Len(list) : Matches(list[j], list[i]) => i = j

LEMMA InstancesDistinct ==
    InstancesAreFresh <=> \A key \in DOMAIN operationMap : Distinct(operationMap[key], key[2])
<1>1. ASSUME NEW key \in DOMAIN operationMap, operationMap[key] \in Seq(Instances(key[2]))
      PROVE  DOMAIN operationMap[key] = 1..Len(operationMap[key])
  BY <1>1
<1>2. QED
  BY <1>1 DEF InstancesAreFresh, Distinct, Instances

LEMMA KnownDistinct ==
    ASSUME InstancesAreFresh, NEW raw
    PROVE  /\ Distinct(Known(OperationCacheKey(raw)), raw.fragmentName)
           /\ \A i \in DOMAIN Known(OperationCacheKey(raw)) :
                /\ OperationCacheKey(raw) \in DOMAIN operationMap
                /\ Known(OperationCacheKey(raw)) = operationMap[OperationCacheKey(raw)]
<1> DEFINE key == OperationCacheKey(raw)
<1>1. key[2] = raw.fragmentName
  BY DEF OperationCacheKey
<1>2. << >> \in Seq(Instances(raw.fragmentName)) /\ Len(<< >>) = 0 /\ DOMAIN << >> = {}
  OBVIOUS
<1>3. Distinct(<< >>, raw.fragmentName)
  BY <1>2 DEF Distinct
<1>4. CASE key \in DOMAIN operationMap
  BY <1>1, <1>4, InstancesDistinct DEF Known
<1>5. CASE key \notin DOMAIN operationMap
  BY <1>2, <1>3, <1>5 DEF Known
<1>6. QED
  BY <1>4, <1>5

\* An instance that none of the others matches can be added.
LEMMA AppendDistinct ==
    ASSUME NEW name, NEW list, Distinct(list, name), NEW new \in Instances(name),
           new.operation = Fresh(name, new.variables), new.operation # Failed,
           \A i \in DOMAIN list : ~Matches(list[i], new)
    PROVE  /\ Distinct(Append(list, new), name)
           /\ DOMAIN Append(list, new) = 1..(Len(list) + 1)
           /\ Append(list, new)[Len(list) + 1] = new
           /\ \A i \in DOMAIN list : Append(list, new)[i] = list[i] /\ i \in 1..(Len(list) + 1)
<1> DEFINE more == Append(list, new)
<1>1. /\ more \in Seq(Instances(name)) /\ Len(more) = Len(list) + 1
      /\ DOMAIN list = 1..Len(list) /\ DOMAIN more = 1..(Len(list) + 1)
      /\ more[Len(list) + 1] = new /\ Len(list) \in Nat
      /\ \A i \in 1..Len(list) : more[i] = list[i]
  BY DEF Distinct
<1> HIDE DEF more
<1>2. ASSUME NEW i \in 1..Len(more), NEW j \in 1..Len(more), Matches(more[j], more[i])
      PROVE  i = j
  <2>1. CASE i \in 1..Len(list) /\ j \in 1..Len(list)
    BY <1>1, <1>2, <2>1 DEF Distinct
  <2>2. CASE i = Len(list) + 1 /\ j \in 1..Len(list)
    BY <1>1, <1>2, <2>2
  <2>3. CASE i \in 1..Len(list) /\ j = Len(list) + 1
    BY <1>1, <1>2, <2>3 DEF Matches
  <2>4. QED BY <1>1, <1>2, <2>1, <2>2, <2>3
<1>3. ASSUME NEW i \in 1..Len(more)
      PROVE  more[i].operation = Fresh(name, more[i].variables) /\ more[i].operation # Failed
  <2>1. i \in 1..Len(list) \/ i = Len(list) + 1
    BY <1>1
  <2>2. QED BY <1>1, <2>1 DEF Distinct
<1>4. Distinct(more, name)
  BY <1>1, <1>2, <1>3 DEF Distinct
<1>5. QED
  BY <1>1, <1>4 DEF more

-----------------------------------------------------------------------------
(* Calls.                                                                  *)

\* The instances under a key are kept when more are added.
Extends(map, old) ==
    \A key \in DOMAIN old :
        /\ key \in DOMAIN map
        /\ \A i \in DOMAIN old[key] : i \in DOMAIN map[key] /\ map[key][i] = old[key][i]

LEMMA AnswersGrow ==
    ASSUME AnswersAreKept, document' = document, Extends(operationMap', operationMap),
           NEW raw \in RawOperation, NEW i, Answer(raw, OperationCacheKey(raw), i),
           IF i = Failed THEN Fresh(raw.fragmentName, raw.variables) = Failed
           ELSE LET key == OperationCacheKey(raw) IN
                /\ key \in DOMAIN operationMap'
                /\ i \in DOMAIN operationMap'[key]
                /\ Matches(operationMap'[key][i], raw)
    PROVE  AnswersAreKept'
<1> DEFINE new == [raw |-> raw, key |-> OperationCacheKey(raw), instance |-> i]
           Kept(a, map) ==
             /\ a.raw \in RawOperation
             /\ a.key = OperationCacheKey(a.raw)
             /\ IF a.instance = Failed THEN Fresh(a.raw.fragmentName, a.raw.variables) = Failed
                ELSE /\ a.key \in DOMAIN map
                     /\ a.instance \in DOMAIN map[a.key]
                     /\ Matches(map[a.key][a.instance], a.raw)
<1>1. \A a \in answers : Kept(a, operationMap')
  BY DEF AnswersAreKept, Extends, InstanceOf
<1>2. Kept(new, operationMap')
  OBVIOUS
<1>3. answers' = answers \cup {new}
  BY DEF Answer
<1> HIDE DEF new
<1>4. \A a \in answers' : Kept(a, operationMap')
  BY <1>1, <1>2, <1>3
<1>5. QED
  BY <1>4 DEF AnswersAreKept, InstanceOf, RawOperation, OperationCacheKey, Fresh, Matches

LEMMA RecallKeeps ==
    ASSUME MemoInv, NEW raw \in RawOperation, Recall(raw)
    PROVE  MemoInv'
<1> DEFINE key == OperationCacheKey(raw)
<1>1. PICK i \in DOMAIN Known(key) : Matches(Known(key)[i], raw) /\ Answer(raw, key, i)
  BY DEF Recall
<1>2. UNCHANGED <<document, queryInfoMap, operationMap>>
  BY DEF Recall
<1>3. /\ Distinct(Known(key), raw.fragmentName)
      /\ key \in DOMAIN operationMap /\ Known(key) = operationMap[key]
  BY <1>1, KnownDistinct DEF MemoInv
<1>4. i \in Nat
  <2> HIDE DEF key
  <2>1. QED BY <1>1, <1>3 DEF Distinct
<1>5. AnswersAreKept'
  BY <1>1, <1>2, <1>3, <1>4, FailedAssumption, AnswersGrow DEF Extends, MemoInv
<1>6. QED
  BY <1>2, <1>5 DEF MemoInv, KeysOfDocument, InfosAreFresh, InstancesAreFresh, Fresh, Matches

\* What a call that did not find its operation makes of the operations.
LEMMA PutKeeps ==
    ASSUME InstancesAreFresh, KeysOfDocument(operationMap), document' = document,
           NEW raw \in RawOperation, NEW list, Distinct(list, raw.fragmentName),
           \A i \in DOMAIN Known(OperationCacheKey(raw)) :
             i \in DOMAIN list /\ list[i] = Known(OperationCacheKey(raw))[i],
           operationMap' = Put(operationMap, OperationCacheKey(raw), list)
    PROVE  /\ InstancesAreFresh' /\ KeysOfDocument(operationMap)'
           /\ Extends(operationMap', operationMap)
           /\ OperationCacheKey(raw) \in DOMAIN operationMap'
           /\ operationMap'[OperationCacheKey(raw)] = list
<1> DEFINE key == OperationCacheKey(raw)
<1>1. key = <<document, key[2]>> /\ key[2] = raw.fragmentName
  BY DEF OperationCacheKey
<1>2. /\ DOMAIN operationMap' = DOMAIN operationMap \cup {key}
      /\ operationMap'[key] = list
      /\ \A k \in DOMAIN operationMap \ {key} : operationMap'[k] = operationMap[k]
  BY DEF Put
<1>3. key \in DOMAIN operationMap => Known(key) = operationMap[key]
  BY DEF Known
<1> HIDE DEF key
<1>4. \A k \in DOMAIN operationMap' : Distinct(operationMap'[k], k[2])
  BY <1>1, <1>2, InstancesDistinct
<1>5. InstancesAreFresh'
  <2>1. ASSUME NEW k \in DOMAIN operationMap'
        PROVE  /\ operationMap'[k] \in Seq(Instances(k[2]))
               /\ DOMAIN operationMap'[k] = 1..Len(operationMap'[k])
    BY <1>4 DEF Distinct
  <2>2. ASSUME NEW k \in DOMAIN operationMap', NEW i \in DOMAIN operationMap'[k]
        PROVE  LET x == operationMap'[k][i] IN
               /\ x.operation = Fresh(k[2], x.variables)
               /\ x.operation # Failed
               /\ \A j \in DOMAIN operationMap'[k] : Matches(operationMap'[k][j], x) => i = j
    BY <1>4, <2>1 DEF Distinct
  <2>3. QED BY <2>1, <2>2 DEF InstancesAreFresh, Instances, Matches, Fresh
<1>6. Extends(operationMap', operationMap)
  BY <1>2, <1>3 DEF Extends, key
<1>7. KeysOfDocument(operationMap)'
  BY <1>1, <1>2 DEF KeysOfDocument
<1>8. QED
  BY <1>2, <1>5, <1>6, <1>7 DEF key

LEMMA InstantiateKeeps ==
    ASSUME MemoInv, NEW raw \in RawOperation, Instantiate(raw)
    PROVE  MemoInv'
<1> DEFINE key  == OperationCacheKey(raw)
           name == raw.fragmentName
           info == IF key \in DOMAIN queryInfoMap THEN queryInfoMap[key] ELSE Info(document, name)
           parsed == Parsed(info, raw.variables)
           new  == [rootId |-> raw.rootId, variables |-> raw.variables, operation |-> parsed]
<1>1. key = <<document, name>> /\ key[2] = name
  BY DEF OperationCacheKey
<1>2. info = Info(document, name)
  BY <1>1 DEF MemoInv, InfosAreFresh
<1>3. Fresh(name, raw.variables) = IF info = Failed THEN Failed ELSE parsed
  BY <1>2 DEF Fresh
<1>4. /\ document' = document
      /\ \A i \in DOMAIN Known(key) : ~Matches(Known(key)[i], raw)
  BY DEF Instantiate
<1>5. \/ /\ info = Failed /\ operationMap' = Put(operationMap, key, Known(key))
         /\ Answer(raw, key, Failed) /\ queryInfoMap' = queryInfoMap
      \/ /\ info # Failed /\ parsed = Failed
         /\ operationMap' = Put(operationMap, key, Known(key))
         /\ Answer(raw, key, Failed) /\ queryInfoMap' = Put(queryInfoMap, key, info)
      \/ /\ info # Failed /\ parsed # Failed
         /\ operationMap' = Put(operationMap, key, Append(Known(key), new))
         /\ Answer(raw, key, Len(Known(key)) + 1) /\ queryInfoMap' = Put(queryInfoMap, key, info)
  BY DEF Instantiate
<1>6. Distinct(Known(key), name)
  BY KnownDistinct DEF MemoInv
<1>7. KeysOfDocument(queryInfoMap)' /\ InfosAreFresh'
  <2>1. CASE queryInfoMap' = queryInfoMap
    BY <1>4, <2>1 DEF MemoInv, KeysOfDocument, InfosAreFresh
  <2>2. CASE info # Failed /\ queryInfoMap' = Put(queryInfoMap, key, info)
    <3> HIDE DEF key, info
    <3>1. QED
      BY <1>1, <1>2, <1>4, <2>2 DEF MemoInv, KeysOfDocument, InfosAreFresh, Put
  <2>3. QED BY <1>5, <2>1, <2>2
<1>8. CASE /\ operationMap' = Put(operationMap, key, Known(key))
           /\ Answer(raw, key, Failed) /\ (info = Failed \/ parsed = Failed)
  <2>1. /\ InstancesAreFresh' /\ KeysOfDocument(operationMap)'
        /\ Extends(operationMap', operationMap)
    BY <1>4, <1>6, <1>8, PutKeeps DEF MemoInv
  <2>2. Fresh(name, raw.variables) = Failed
    BY <1>3, <1>8
  <2>3. AnswersAreKept'
    BY <1>4, <1>8, <2>1, <2>2, AnswersGrow DEF MemoInv
  <2>4. QED BY <1>7, <2>1, <2>3 DEF MemoInv
<1>9. CASE /\ info # Failed /\ parsed # Failed
           /\ operationMap' = Put(operationMap, key, Append(Known(key), new))
           /\ Answer(raw, key, Len(Known(key)) + 1)
  <2> DEFINE list == Append(Known(key), new)
             n    == Len(Known(key)) + 1
  <2>1. new \in Instances(name) /\ new.operation = Fresh(name, new.variables)
        /\ new.operation # Failed
    BY <1>3, <1>9 DEF Instances, RawOperation
  <2>2. \A i \in DOMAIN Known(key) : ~Matches(Known(key)[i], new)
    BY <1>4 DEF Matches
  <2>3. /\ Distinct(list, name) /\ DOMAIN list = 1..n /\ list[n] = new
        /\ \A i \in DOMAIN Known(key) : list[i] = Known(key)[i] /\ i \in 1..n
    <3> HIDE DEF key, new, name
    <3>1. QED BY <1>6, <2>1, <2>2, AppendDistinct
  <2>4. n \in DOMAIN list /\ n # Failed
    <3>1. Len(Known(key)) \in Nat
      BY <1>6 DEF Distinct
    <3> HIDE DEF key, new, list
    <3>2. QED BY <2>3, <3>1, FailedAssumption
  <2>5. /\ InstancesAreFresh' /\ KeysOfDocument(operationMap)'
        /\ Extends(operationMap', operationMap)
        /\ key \in DOMAIN operationMap' /\ operationMap'[key] = list
    <3> HIDE DEF list
    <3>1. operationMap' = Put(operationMap, key, list)
      BY <1>9 DEF list
    <3>2. QED BY <1>4, <2>3, <3>1, PutKeeps DEF MemoInv
  <2>6. Matches(list[n], raw)
    BY <2>3 DEF Matches
  <2> HIDE DEF list, key, new
  <2>7. AnswersAreKept'
    BY <1>4, <1>9, <2>4, <2>5, <2>6, AnswersGrow DEF MemoInv, key
  <2>8. QED BY <1>7, <2>5, <2>7 DEF MemoInv
<1>10. QED
  <2> HIDE DEF key, info, parsed, new
  <2>1. QED BY <1>5, <1>8, <1>9

-----------------------------------------------------------------------------
(* The theorems.                                                           *)

LEMMA InitMemo == Init => MemoInv
BY DEF Init, MemoInv, KeysOfDocument, InfosAreFresh, InstancesAreFresh, AnswersAreKept

LEMMA NextMemo == MemoInv /\ [Next]_vars => MemoInv'
<1>1. SUFFICES ASSUME MemoInv, [Next]_vars PROVE MemoInv'
  OBVIOUS
<1>2. CASE Next
  BY <1>1, <1>2, RecallKeeps, InstantiateKeeps DEF Next
<1>3. CASE UNCHANGED vars
  <2>1. /\ KeysOfDocument(queryInfoMap)' /\ KeysOfDocument(operationMap)' /\ InfosAreFresh'
    BY <1>1, <1>3 DEF vars, MemoInv, KeysOfDocument, InfosAreFresh
  <2>2. InstancesAreFresh'
    BY <1>1, <1>3 DEF vars, MemoInv, InstancesAreFresh, Fresh, Matches
  <2>3. AnswersAreKept'
    BY <1>1, <1>3
    DEF vars, MemoInv, AnswersAreKept, Fresh, Matches, InstanceOf, RawOperation, OperationCacheKey
  <2>4. QED BY <2>1, <2>2, <2>3 DEF MemoInv
<1>4. QED
  BY <1>1, <1>2, <1>3

\* Whatever was asked for, entries of both memos are what their keys say, no
\* two are of one operation, and a call that threw left no wrong one behind.
THEOREM MemoInvariant == Spec => []MemoInv
BY InitMemo, NextMemo, PTL DEF Spec

\* The memos of parseOperation are not noticed, whatever parsing gives.
THEOREM AnswersAlwaysFresh == Spec => []AnswersAreFresh
<1>1. ASSUME MemoInv PROVE AnswersAreFresh
  <2>1. ASSUME NEW a \in answers, a.instance # Failed
        PROVE  /\ Fresh(a.raw.fragmentName, a.raw.variables) # Failed
               /\ InstanceOf(a).operation = Fresh(a.raw.fragmentName, a.raw.variables)
    <3>1. /\ a.key \in DOMAIN operationMap /\ a.instance \in DOMAIN operationMap[a.key]
          /\ Matches(InstanceOf(a), a.raw) /\ a.key[2] = a.raw.fragmentName
      BY <1>1, <2>1 DEF MemoInv, AnswersAreKept, OperationCacheKey
    <3>2. InstanceOf(a).operation = Fresh(a.key[2], InstanceOf(a).variables)
          /\ InstanceOf(a).operation # Failed
      BY <1>1, <3>1 DEF MemoInv, InstancesAreFresh, InstanceOf
    <3>3. QED BY <3>1, <3>2 DEF Matches
  <2>2. ASSUME NEW a \in answers, a.instance = Failed
        PROVE  Fresh(a.raw.fragmentName, a.raw.variables) = Failed
    BY <1>1, <2>2 DEF MemoInv, AnswersAreKept
  <2>3. QED BY <2>1, <2>2 DEF AnswersAreFresh
<1>2. QED
  BY <1>1, MemoInvariant, PTL

\* What parseOperation gives serves as an identity of the operation.
THEOREM OperationsAreIdentities == Spec => []SameOperationSameIdentity
<1>1. ASSUME MemoInv PROVE SameOperationSameIdentity
  <2>1. ASSUME NEW a \in Given, NEW b \in Given
        PROVE  /\ a.raw \in RawOperation /\ b.raw \in RawOperation
               /\ a.key = OperationCacheKey(a.raw) /\ b.key = OperationCacheKey(b.raw)
               /\ a.key \in DOMAIN operationMap
               /\ a.instance \in DOMAIN operationMap[a.key]
               /\ b.instance \in DOMAIN operationMap[b.key]
               /\ Matches(operationMap[a.key][a.instance], a.raw)
               /\ Matches(operationMap[b.key][b.instance], b.raw)
    BY <1>1 DEF Given, MemoInv, AnswersAreKept, InstanceOf
  <2>2. ASSUME NEW a \in Given, NEW b \in Given, a.raw = b.raw
        PROVE  a.key = b.key /\ a.instance = b.instance
    <3>1. a.key = b.key
      BY <2>1, <2>2
    <3>2. Matches(operationMap[a.key][a.instance], operationMap[a.key][b.instance])
      BY <2>1, <2>2, <3>1 DEF Matches
    <3>3. \A i \in DOMAIN operationMap[a.key], j \in DOMAIN operationMap[a.key] :
            Matches(operationMap[a.key][j], operationMap[a.key][i]) => i = j
      BY <1>1, <2>1 DEF MemoInv, InstancesAreFresh
    <3>4. QED BY <2>1, <3>1, <3>2, <3>3
  <2>3. ASSUME NEW a \in Given, NEW b \in Given, a.key = b.key, a.instance = b.instance
        PROVE  a.raw = b.raw
    <3>1. a.raw.fragmentName = b.raw.fragmentName
      BY <2>1, <2>3 DEF OperationCacheKey
    <3>2. a.raw.rootId = b.raw.rootId /\ a.raw.variables = b.raw.variables
      BY <2>1, <2>3 DEF Matches
    <3>3. QED BY <2>1, <3>1, <3>2 DEF RawOperation
  <2>4. QED BY <2>2, <2>3 DEF SameOperationSameIdentity
<1>2. QED
  BY <1>1, MemoInvariant, PTL
=============================================================================
