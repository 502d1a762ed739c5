--------------------------- MODULE LogMatchProofs ---------------------------
(***************************************************************************)
(* LogMatch implements LogVerdict, for every set of rule files.  A step    *)
(* between LineEvent and LogEnd is invisible there, so the proof needs to  *)
(* know what the Log holds after some of the rules: what those of them     *)
(* that are about the line say (LogSoFar).                                 *)
(***************************************************************************)
EXTENDS LogMatch, TLAPS

\* A Rule is one of those its file may become.
Faithful == \A r \in DOMAIN rules : Compiles(conf[r]) /\ rules[r] \in Built(conf[r])

\* The rules about the line that have been applied.
Seen == {r \in Verdict!About : r \notin todo}

LogSoFar ==
  /\ log.todel => \E r \in Verdict!About : rules[r].todel
  /\ ~log.todel =>
       /\ \A r \in Seen : ~rules[r].todel
       /\ log.tags = UNION {conf[r].tags : r \in Seen}
       /\ log.source_host \in OneOf(UNION {conf[r].source_host : r \in Seen}, CfgHost)
       /\ log.source_path \in OneOf(UNION {conf[r].source_path : r \in Seen}, FileName)

IInv == TypeOK /\ Faithful /\ (busy => LogSoFar)

-----------------------------------------------------------------------------
(***************************************************************************)
(* A Rule made of a file is well typed.                                    *)
(***************************************************************************)
LEMMA BuiltTypes ==
  ASSUME NEW c \in RuleFile, NEW rule \in Built(c)
  PROVE  rule \in RuleSpec
<1>1. rule.regex \in SUBSET RuleRegex /\ rule.tags \in SUBSET Tag
  BY DEF Built, RuleFile, RuleRegex
<1>2. /\ rule.source_host \in Host \cup {Null} /\ rule.source_path \in Path \cup {Null}
      /\ rule.todel \in BOOLEAN
  BY DEF Built, RuleFile, OneOf
<1>3. rule = [regex |-> rule.regex, tags |-> rule.tags, todel |-> rule.todel,
              source_host |-> rule.source_host, source_path |-> rule.source_path]
  BY DEF Built
<1> QED
  BY <1>1, <1>2, <1>3 DEF RuleSpec

(***************************************************************************)
(* _log_line_match accepts the line for the rules that are about it.       *)
(***************************************************************************)
LEMMA MatchIsAbout ==
  ASSUME Faithful, NEW r \in DOMAIN rules
  PROVE  LineMatch(rules[r]) <=> r \in Verdict!About
<1>1. rules[r].regex = (conf[r].message \X {NoMatch}) \cup (conf[r].message_unmatch \X {0})
  BY DEF Faithful, Built
<1>2. ASSUME LineMatch(rules[r]) PROVE r \in Verdict!About
  <2>1. \A x \in conf[r].message : <<x, NoMatch>> \in rules[r].regex
    BY <1>1
  <2>2. \A x \in conf[r].message_unmatch : <<x, 0>> \in rules[r].regex
    BY <1>1
  <2> QED
    BY <2>1, <2>2, <1>2 DEF LineMatch, Verdict!About
<1>3. ASSUME r \in Verdict!About PROVE LineMatch(rules[r])
  BY <1>1, <1>3 DEF LineMatch, Verdict!About
<1> QED
  BY <1>2, <1>3

(***************************************************************************)
(* What a rule of a file gives, and what its file gives.                   *)
(***************************************************************************)
LEMMA BuiltGives ==
  ASSUME NEW c \in RuleFile, NEW rule \in Built(c)
  PROVE  /\ rule.tags = c.tags
         /\ rule.todel => TRUE \in c.delete
         /\ ~rule.todel => c.delete # {TRUE}
         /\ IF rule.source_host = Null THEN c.source_host = {}
                                       ELSE rule.source_host \in c.source_host
         /\ IF rule.source_path = Null THEN c.source_path = {}
                                       ELSE rule.source_path \in c.source_path
<1>1. rule.tags = c.tags
  BY DEF Built
<1>2. (rule.todel => TRUE \in c.delete) /\ (~rule.todel => c.delete # {TRUE})
  <2>1. rule.todel \in OneOf(c.delete, FALSE) /\ c.delete \in SUBSET BOOLEAN
    BY DEF Built, RuleFile
  <2> QED
    BY <2>1 DEF OneOf
<1>3. /\ rule.source_host \in OneOf(c.source_host, Null) /\ c.source_host \subseteq Host
      /\ rule.source_path \in OneOf(c.source_path, Null) /\ c.source_path \subseteq Path
  BY DEF Built, RuleFile
<1>4. Null \notin Host /\ Null \notin Path
  BY MatchAssumption
<1> QED
  BY <1>1, <1>2, <1>3, <1>4 DEF OneOf

-----------------------------------------------------------------------------
(***************************************************************************)
(* Applying one more rule.  Seen grows by the rule if it is about the      *)
(* line, and what its file gives is added to what the Log holds.           *)
(***************************************************************************)
LEMMA ApplyKeeps ==
  ASSUME IInv, NEW r \in Rule, ApplyRule(r)
  PROVE  LogSoFar'
<1> DEFINE A == Verdict!About
<1>1. r \in todo /\ r \in DOMAIN rules /\ busy /\ conf[r] \in RuleFile /\ LogSoFar
  BY MatchAssumption DEF IInv, ApplyRule, TypeOK
<1>2. /\ A' = A /\ UNCHANGED <<conf, rules>>
      /\ LineMatch(rules[r]) <=> r \in A
  BY <1>1, MatchIsAbout DEF IInv, ApplyRule, Verdict!About
<1>3. CASE ~LineMatch(rules[r]) /\ todo' = todo \ {r} /\ UNCHANGED log
  <2>1. Seen' = Seen
    BY <1>2, <1>3 DEF Seen
  <2> QED
    BY <2>1, <1>1, <1>2, <1>3 DEF LogSoFar, OneOf
<1>4. CASE LineMatch(rules[r]) /\ rules[r].todel /\ log' = [log EXCEPT !.todel = TRUE]
  <2>1. log'.todel
    BY <1>4 DEF IInv, TypeOK
  <2>2. r \in A' /\ rules'[r].todel
    BY <1>2, <1>4
  <2> QED
    BY <2>1, <2>2 DEF LogSoFar
<1>5. CASE /\ LineMatch(rules[r]) /\ ~rules[r].todel
           /\ todo' = todo \ {r} /\ log' = Marked(rules[r])
  <2>1. /\ log'.tags = log.tags \cup rules[r].tags
        /\ log'.source_host = Over(rules[r].source_host, log.source_host)
        /\ log'.source_path = Over(rules[r].source_path, log.source_path)
        /\ log'.todel = log.todel
    BY <1>5 DEF Marked, IInv, TypeOK
  <2>2. Seen' = Seen \cup {r}
    BY <1>1, <1>2, <1>5 DEF Seen
  <2>3. CASE log.todel
    BY <2>3, <2>1, <1>1, <1>2 DEF LogSoFar
  <2>4. CASE ~log.todel
    <3>1. \A q \in Seen' : ~rules'[q].todel
      BY <2>2, <2>4, <1>1, <1>2, <1>5 DEF LogSoFar
    <3>2. /\ rules[r].tags = conf[r].tags
          /\ IF rules[r].source_host = Null THEN conf[r].source_host = {}
               ELSE rules[r].source_host \in conf[r].source_host
          /\ IF rules[r].source_path = Null THEN conf[r].source_path = {}
               ELSE rules[r].source_path \in conf[r].source_path
      BY <1>1, BuiltGives DEF IInv, Faithful
    <3>3. log'.tags = UNION {conf'[q].tags : q \in Seen'}
      BY <2>1, <2>2, <2>4, <3>2, <1>1, <1>2 DEF LogSoFar
    <3>4. log'.source_host \in OneOf(UNION {conf'[q].source_host : q \in Seen'}, CfgHost)
      BY <2>1, <2>2, <2>4, <3>2, <1>1, <1>2 DEF LogSoFar, OneOf, Over
    <3>5. log'.source_path \in OneOf(UNION {conf'[q].source_path : q \in Seen'}, FileName)
      BY <2>1, <2>2, <2>4, <3>2, <1>1, <1>2 DEF LogSoFar, OneOf, Over
    <3> QED
      BY <2>1, <2>4, <3>1, <3>3, <3>4, <3>5 DEF LogSoFar
  <2> QED
    BY <2>3, <2>4
<1> QED
  BY <1>3, <1>4, <1>5 DEF ApplyRule

(***************************************************************************)
(* Every step keeps the types.                                             *)
(***************************************************************************)
LEMMA TypesStep ==
  ASSUME IInv, [Next]_vars
  PROVE  TypeOK'
<1>1. CASE UNCHANGED vars
  BY <1>1 DEF IInv, TypeOK, vars
<1>2. CASE LineEvent
  BY <1>2 DEF IInv, LineEvent, TypeOK, NewLog
<1>3. CASE LogEnd
  <2>1. /\ DOMAIN rules \subseteq Rule \ unread /\ \A r \in DOMAIN rules : rules[r] \in RuleSpec
        /\ UNCHANGED <<conf, unread, rules, line, todo>>
    BY <1>3 DEF IInv, TypeOK, LogEnd
  <2>2. \A d \in sent' : d \in Document
    BY <1>3 DEF IInv, TypeOK, LogEnd, Document
  <2>3. log' \in [source_host : Host \cup {CfgHost}, source_path : Path \cup {FileName},
                  tags : SUBSET Tag, todel : BOOLEAN]
    BY <1>3 DEF LogEnd, NewLog
  <2> QED
    BY <1>3, <2>1, <2>2, <2>3 DEF IInv, LogEnd, TypeOK
<1>4. ASSUME NEW r \in Rule, LoadRule(r) PROVE TypeOK'
  <2>1. PICK rule \in Built(conf[r]) :
          rules' = [q \in DOMAIN rules \cup {r} |-> IF q = r THEN rule ELSE rules[q]]
    BY <1>4 DEF LoadRule
  <2>2. rule \in RuleSpec
    BY <2>1, BuiltTypes, MatchAssumption DEF IInv, TypeOK
  <2> QED
    BY <1>4, <2>1, <2>2 DEF IInv, TypeOK, LoadRule
<1>5. ASSUME NEW r \in Rule, DropRule(r) PROVE TypeOK'
  BY <1>5 DEF IInv, DropRule, TypeOK
<1>6. ASSUME NEW r \in Rule, ApplyRule(r) PROVE TypeOK'
  <2>1. r \in DOMAIN rules /\ rules[r] \in RuleSpec
    BY <1>6 DEF IInv, TypeOK, ApplyRule
  <2>2. log' \in [source_host : Host \cup {CfgHost}, source_path : Path \cup {FileName},
                  tags : SUBSET Tag, todel : BOOLEAN]
    BY <1>6, <2>1 DEF IInv, TypeOK, ApplyRule, Marked, Over, RuleSpec
  <2> QED
    BY <1>6, <2>2 DEF IInv, TypeOK, ApplyRule
<1> QED
  BY <1>1, <1>2, <1>3, <1>4, <1>5, <1>6 DEF Next

(***************************************************************************)
(* IInv holds at first and in every state.                                 *)
(***************************************************************************)
LEMMA InvInit == Init => IInv
<1> SUFFICES ASSUME Init PROVE IInv
  OBVIOUS
<1>1. DOMAIN rules = {}
  BY DEF Init
<1>2. line \in [Regex \ Broken -> Result]
  BY MatchAssumption DEF Init
<1> QED
  BY <1>1, <1>2 DEF Init, IInv, TypeOK, Faithful, NewLog

LEMMA InvStep == IInv /\ [Next]_vars => IInv'
<1> SUFFICES ASSUME IInv, [Next]_vars PROVE Faithful' /\ (busy' => LogSoFar')
  BY TypesStep DEF IInv
<1>1. CASE UNCHANGED vars
  BY <1>1 DEF IInv, Faithful, LogSoFar, Seen, Verdict!About, vars
<1>2. CASE LineEvent
  <2>1. Seen' = {} /\ log' = NewLog
    BY <1>2 DEF LineEvent, Seen, Verdict!About
  <2>2. LogSoFar'
    BY <2>1 DEF LogSoFar, NewLog, OneOf
  <2> QED
    BY <2>2, <1>2 DEF IInv, Faithful, LineEvent
<1>3. CASE LogEnd
  BY <1>3 DEF IInv, Faithful, LogEnd
<1>4. ASSUME NEW r \in Rule, LoadRule(r) PROVE Faithful' /\ ~busy'
  BY <1>4 DEF IInv, Faithful, LoadRule
<1>5. ASSUME NEW r \in Rule, DropRule(r) PROVE Faithful' /\ ~busy'
  BY <1>5 DEF IInv, Faithful, DropRule
<1>6. ASSUME NEW r \in Rule, ApplyRule(r) PROVE Faithful' /\ LogSoFar'
  BY <1>6, ApplyKeeps DEF IInv, Faithful, ApplyRule
<1> QED
  BY <1>1, <1>2, <1>3, <1>4, <1>5, <1>6 DEF Next

(***************************************************************************)
(* In every state the variables have their types, and the iterator of      *)
(* log_line_event only gives rules that exist.                             *)
(***************************************************************************)
THEOREM MatchTypes == Spec => []TypeOK
<1>1. IInv => TypeOK
  BY DEF IInv
<1> QED
  BY <1>1, InvInit, InvStep, PTL DEF Spec

-----------------------------------------------------------------------------
(***************************************************************************)
(* The end of log_line_event takes a decision that LogVerdict allows.      *)
(***************************************************************************)
LEMMA EndDecides ==
  ASSUME IInv, LogEnd
  PROVE  Verdict!Decide
<1> DEFINE A == Verdict!About
<1>1. /\ Seen = A /\ LogSoFar
      /\ \A r \in A : r \in DOMAIN rules /\ conf[r] \in RuleFile /\ rules[r] \in Built(conf[r])
  BY MatchAssumption DEF IInv, LogEnd, Seen, TypeOK, Faithful, Verdict!About
<1>2. CASE log.todel
  <2>1. Verdict!MayDelete
    BY <1>1, <1>2, BuiltGives DEF LogSoFar, Verdict!MayDelete
  <2> QED
    BY <2>1, <1>2 DEF LogEnd, Verdict!Decide
<1>3. CASE ~log.todel
  <2> DEFINE d == [source_host |-> log.source_host, source_path |-> log.source_path,
                   tags |-> log.tags]
  <2>1. Verdict!MaySend
    BY <1>1, <1>3, BuiltGives DEF LogSoFar, Verdict!MaySend
  <2>2. d \in Verdict!Documents
    BY <1>1, <1>3 DEF LogSoFar, Verdict!Documents, OneOf, Verdict!OneOf
  <2>3. sent' = {d}
    BY <1>3 DEF LogEnd
  <2> QED
    BY <2>1, <2>2, <2>3 DEF LogEnd, Verdict!Decide
<1> QED
  BY <1>2, <1>3

(***************************************************************************)
(* For every set of rule files, every order in which they arrive and every *)
(* order of the two hashes: a line is deleted, or sent with the tags, the  *)
(* host and the path, as the rule files say that have arrived.             *)
(***************************************************************************)
THEOREM RulesDecide == Spec => AsTheRulesSay
<1>1. Init => Verdict!Init
  BY MatchAssumption DEF Init, Verdict!Init
<1>2. IInv /\ [Next]_vars => [Verdict!Next]_(Verdict!vars)
  <2> SUFFICES ASSUME IInv, [Next]_vars PROVE Verdict!Next \/ UNCHANGED Verdict!vars
    OBVIOUS
  <2>1. CASE UNCHANGED vars
    BY <2>1 DEF vars, Verdict!vars
  <2>2. CASE LineEvent
    BY <2>2 DEF LineEvent, Verdict!Next, Verdict!Line
  <2>3. CASE LogEnd
    BY <2>3, EndDecides DEF Verdict!Next
  <2>4. ASSUME NEW r \in Rule, LoadRule(r) PROVE Verdict!Load(r)
    BY <2>4 DEF LoadRule, Compiles, Verdict!Load, Verdict!Usable
  <2>5. ASSUME NEW r \in Rule, DropRule(r) PROVE UNCHANGED Verdict!vars
    BY <2>5 DEF DropRule, Verdict!vars
  <2>6. ASSUME NEW r \in Rule, ApplyRule(r) PROVE UNCHANGED Verdict!vars
    BY <2>6 DEF ApplyRule, Verdict!vars
  <2> QED
    BY <2>1, <2>2, <2>3, <2>4, <2>5, <2>6 DEF Next, Verdict!Next
<1> QED
  BY <1>1, <1>2, InvInit, InvStep, PTL DEF Spec, AsTheRulesSay, Verdict!Spec
=============================================================================
