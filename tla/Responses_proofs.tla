--------------------------- MODULE Responses_proofs ---------------------------
(***************************************************************************)
(* Theorems about the response side.  First the parts that decide or       *)
(* record one call at a time: the audit chain, the active response, the    *)
(* zero-trust engine and the admission workflow, the AI triage and the     *)
(* action dispatcher.  They hold for every input; the two that keep state  *)
(* have their invariants proved for every sequence of calls.  Then the     *)
(* firewall blocker the dispatcher blocks addresses with, for any set of   *)
(* calling threads, of addresses and any number of blocks.                 *)
(***************************************************************************)
EXTENDS AuditChain, ActiveResponse, ActionDispatcher, AiTriage, FirewallBlocker,
        SequenceTheorems, FiniteSetTheorems, TLAPS

(* A sequence grown by one element keeps the others in their places.       *)
LEMMA Grown ==
  ASSUME NEW S, NEW c \in Seq(S), NEW e
  PROVE  /\ Append(c, e) \in Seq(S \cup {e})
         /\ Len(Append(c, e)) = Len(c) + 1
         /\ Len(c) \in Nat
         /\ \A i \in 1 .. Len(c) : Append(c, e)[i] = c[i]
         /\ Append(c, e)[Len(c) + 1] = e
<1>1. c \in Seq(S \cup {e})
  OBVIOUS
<1>2. QED
  BY <1>1, AppendProperties

-----------------------------------------------------------------------------
(* ------------------------------ audit chain ----------------------------- *)

(* Whatever was edited, stored hashes and links are those of what was      *)
(* written: an edit changes a text and nothing else.                       *)
Linked ==
  /\ \E S : chain \in Seq(S)
  /\ \E S : written \in Seq(S)
  /\ Len(chain) = Len(written)
  /\ \A i \in 1 .. Len(chain) :
       /\ chain[i].hash = EntryHash(written[i], chain[i].prev)
       /\ chain[i].prev = IF i = 1 THEN Genesis ELSE chain[i-1].hash

(* Appending keeps every stored hash and link in order (add_entry).        *)
LEMMA AddKeepsLinks ==
  ASSUME Linked, NEW text, AddEntry(text)
  PROVE  Linked'
<1> DEFINE e == [text |-> text, prev |-> HeadHash, hash |-> EntryHash(text, HeadHash)]
           n == Len(chain) + 1
<1>1. PICK S : chain \in Seq(S)
  BY DEF Linked
<1>2. PICK T : written \in Seq(T)
  BY DEF Linked
<1>3. /\ chain' \in Seq(S \cup {e}) /\ Len(chain') = n /\ Len(chain) \in Nat
      /\ \A i \in 1 .. Len(chain) : chain'[i] = chain[i]
      /\ chain'[n] = e
  BY <1>1, Grown DEF AddEntry
<1>4. /\ written' \in Seq(T \cup {text}) /\ Len(written') = n
      /\ \A i \in 1 .. Len(chain) : written'[i] = written[i]
      /\ written'[n] = text
  BY <1>2, Grown DEF AddEntry, Linked
<1>5. e.prev = IF n = 1 THEN Genesis ELSE chain[n-1].hash
  BY <1>1, <1>3, EmptySeq DEF HeadHash
<1>6. ASSUME NEW i \in 1 .. n
      PROVE  /\ chain'[i].hash = EntryHash(written'[i], chain'[i].prev)
             /\ chain'[i].prev = IF i = 1 THEN Genesis ELSE chain'[i-1].hash
  <2>1. CASE i = n
    <3>1. n # 1 => n - 1 \in 1 .. Len(chain)
      BY <1>3
    <3>2. QED
      BY <2>1, <3>1, <1>3, <1>4, <1>5
  <2>2. CASE i # n
    <3>1. i \in 1 .. Len(chain) /\ (i # 1 => i - 1 \in 1 .. Len(chain))
      BY <2>2, <1>3
    <3>2. QED
      BY <3>1, <1>3, <1>4 DEF Linked
  <2>3. QED
    BY <2>1, <2>2
<1>7. QED
  BY <1>3, <1>4, <1>6 DEF Linked

(* Editing a text leaves hashes and links as they are.                     *)
LEMMA TamperKeepsLinks ==
  ASSUME Linked, NEW i \in DOMAIN chain, NEW text, Tamper(i, text)
  PROVE  Linked'
<1>1. PICK S : chain \in Seq(S)
  BY DEF Linked
<1> DEFINE e == [chain[i] EXCEPT !.text = text]
<1>2. /\ chain' = [chain EXCEPT ![i] = e] /\ written' = written
      /\ DOMAIN chain = 1 .. Len(chain) /\ Len(chain) \in Nat
  BY <1>1 DEF Tamper
<1>3. chain' \in Seq(S \cup {e}) /\ Len(chain') = Len(chain)
  <2>1. chain \in Seq(S \cup {e})
    BY <1>1
  <2>2. QED
    BY <2>1, <1>2, ExceptSeq
<1>4. \A j \in 1 .. Len(chain) : chain'[j].hash = chain[j].hash /\ chain'[j].prev = chain[j].prev
  BY <1>2
<1>5. QED
  BY <1>2, <1>3, <1>4 DEF Linked

(* Stored hashes and links never leave what was written (audit_chain.cpp). *)
THEOREM LinksHold == AuditSpec => []Linked
<1>1. AuditInit => Linked
  <2> SUFFICES ASSUME AuditInit PROVE Linked
    OBVIOUS
  <2>1. chain \in Seq({}) /\ written \in Seq({}) /\ Len(chain) = 0 /\ Len(written) = 0
    BY DEF AuditInit
  <2>2. QED
    BY <2>1 DEF Linked
<1>2. Linked /\ [AuditNext]_auditVars => Linked'
  <2> SUFFICES ASSUME Linked, [AuditNext]_auditVars PROVE Linked'
    OBVIOUS
  <2>1. CASE UNCHANGED auditVars
    BY <2>1 DEF auditVars, Linked, EntryHash
  <2>2. CASE \E text \in Texts : AddEntry(text)
    BY <2>2, AddKeepsLinks
  <2>3. CASE \E text \in Texts, i \in DOMAIN chain : Tamper(i, text)
    BY <2>3, TamperKeepsLinks
  <2>4. QED
    BY <2>1, <2>2, <2>3 DEF AuditNext
<1>3. QED
  BY <1>1, <1>2, PTL DEF AuditSpec

(* An entry is bad exactly when it was edited: links never are.            *)
LEMMA BadMeansEdited ==
  ASSUME Linked, NEW i \in 1 .. Len(chain)
  PROVE  Bad(i) <=> chain[i].text # written[i]
BY DEF Linked, Bad, Mismatch, Unlinked, EntryHash

(* verify_chain passes exactly when nothing was edited, for any number of  *)
(* entries, edits and later appends.                                       *)
THEOREM VerificationIsExact == AuditSpec => []VerifyMeansUntouched
<1>1. Linked => VerifyMeansUntouched
  <2> SUFFICES ASSUME Linked PROVE VerifyMeansUntouched
    OBVIOUS
  <2>1. DOMAIN chain = 1 .. Len(chain)
    BY DEF Linked
  <2>2. QED
    BY <2>1, BadMeansEdited DEF VerifyMeansUntouched, Valid, Linked
<1>2. QED
  BY <1>1, LinksHold, PTL

(* The entry verify_chain names is the first edited one.                   *)
THEOREM FirstEditIsReported == AuditSpec => []ReportedIsFirstEdited
<1>1. Linked => ReportedIsFirstEdited
  <2> SUFFICES ASSUME Linked, NEW i \in DOMAIN chain
               PROVE  IsReported(i) <=> /\ chain[i].text # written[i]
                                        /\ \A j \in 1 .. i-1 : chain[j].text = written[j]
    BY DEF ReportedIsFirstEdited
  <2>1. i \in 1 .. Len(chain) /\ Len(chain) \in Nat
    BY DEF Linked
  <2>2. \A j \in 1 .. i-1 : j \in 1 .. Len(chain)
    BY <2>1
  <2>3. QED
    BY <2>1, <2>2, BadMeansEdited DEF IsReported
<1>2. QED
  BY <1>1, LinksHold, PTL

-----------------------------------------------------------------------------
(* ---------------------------- active response --------------------------- *)

(* response_tier only rises with the number of interactions.               *)
LEMMA TierRises ==
  ASSUME NEW m \in Nat, NEW n \in Nat, m <= n
  PROVE  ResponseTier(m) \in 0 .. 3 /\ ResponseTier(m) <= ResponseTier(n)
BY DEF ResponseTier

LogEntries == [session : Sessions, n : Nat, tier : 0 .. 3, ioc : BOOLEAN]

(* Every entry bears the number its interaction had in its session, and    *)
(* the tier of that number.                                                *)
Numbered ==
  /\ counts \in [Sessions -> Nat]
  /\ forensicLog \in Seq(LogEntries)
  /\ \A k \in 1 .. Len(forensicLog) :
       /\ forensicLog[k].n \in 1 .. counts[forensicLog[k].session]
       /\ forensicLog[k].tier = ResponseTier(forensicLog[k].n)
  /\ \A j, k \in 1 .. Len(forensicLog) :
       forensicLog[j].session = forensicLog[k].session /\ j < k
         => forensicLog[j].n < forensicLog[k].n
  /\ \A s \in Sessions : \A n \in 1 .. counts[s] :
       \E k \in 1 .. Len(forensicLog) : forensicLog[k].session = s /\ forensicLog[k].n = n

(* One more interaction of one session, whoever was served before (serve). *)
LEMMA ServeNumbers ==
  ASSUME Numbered, NEW s \in Sessions, NEW hint, Serve(s, hint)
  PROVE  Numbered'
<1> DEFINE e == [session |-> s, n |-> counts[s] + 1, tier |-> ResponseTier(counts[s] + 1),
                 ioc |-> hint \in Iocs]
           last == Len(forensicLog) + 1
<1>1. e \in LogEntries
  BY TierRises DEF Numbered, LogEntries
<1>2. /\ forensicLog' \in Seq(LogEntries) /\ Len(forensicLog') = last
      /\ Len(forensicLog) \in Nat
      /\ \A k \in 1 .. Len(forensicLog) : forensicLog'[k] = forensicLog[k]
      /\ forensicLog'[last] = e
  BY <1>1, AppendProperties DEF Serve, Numbered
<1>3. /\ counts' \in [Sessions -> Nat]
      /\ counts'[s] = counts[s] + 1
      /\ \A r \in Sessions : r # s => counts'[r] = counts[r]
  BY DEF Serve, Numbered
<1>4. \A k \in 1 .. Len(forensicLog) : forensicLog[k] \in LogEntries
  BY DEF Numbered
<1>5. ASSUME NEW k \in 1 .. last
      PROVE  /\ forensicLog'[k].n \in 1 .. counts'[forensicLog'[k].session]
             /\ forensicLog'[k].tier = ResponseTier(forensicLog'[k].n)
  <2>1. CASE k = last
    BY <2>1, <1>2, <1>3 DEF Numbered
  <2>2. CASE k # last
    <3>1. k \in 1 .. Len(forensicLog)
      BY <2>2, <1>2
    <3>2. forensicLog[k].session \in Sessions /\ forensicLog[k].n \in Nat
      BY <3>1, <1>4 DEF LogEntries
    <3> DEFINE r == forensicLog[k].session
    <3>3. forensicLog[k].n \in 1 .. counts[r] /\ forensicLog[k].tier = ResponseTier(forensicLog[k].n)
      BY <3>1 DEF Numbered
    <3>4. counts[r] \in Nat /\ counts'[r] \in Nat /\ counts[r] <= counts'[r]
      <4>1. \A q \in Sessions : counts[q] \in Nat /\ counts'[q] \in Nat /\ counts[q] <= counts'[q]
        <5>1. counts \in [Sessions -> Nat]
          BY DEF Numbered
        <5>2. TAKE q \in Sessions
        <5>3. counts[q] \in Nat /\ counts'[q] \in Nat
          BY <5>1, <1>3
        <5>4. counts'[q] = IF q = s THEN counts[q] + 1 ELSE counts[q]
          BY <1>3
        <5>5. QED
          BY <5>3, <5>4
      <4>2. QED
        BY <3>2, <4>1
    <3>5. forensicLog'[k] = forensicLog[k]
      BY <3>1, <1>2
    <3>6. forensicLog[k].n \in 1 .. counts'[r]
      BY <3>3, <3>4
    <3> HIDE DEF r
    <3>7. QED
      BY <3>3, <3>5, <3>6 DEF r
  <2>3. QED
    BY <2>1, <2>2
<1>6. ASSUME NEW j \in 1 .. last, NEW k \in 1 .. last, j < k,
             forensicLog'[j].session = forensicLog'[k].session
      PROVE  forensicLog'[j].n < forensicLog'[k].n
  <2>1. j \in 1 .. Len(forensicLog)
    BY <1>2, <1>6
  <2>2. CASE k = last
    <3>1. forensicLog[j].session = s /\ forensicLog[j].n \in 1 .. counts[s]
      BY <2>1, <2>2, <1>2, <1>6 DEF Numbered
    <3>2. counts[s] \in Nat
      BY DEF Numbered
    <3>3. QED
      BY <2>1, <2>2, <3>1, <3>2, <1>2
  <2>3. CASE k # last
    <3>1. k \in 1 .. Len(forensicLog)
      BY <2>3, <1>2
    <3>2. QED
      BY <2>1, <3>1, <1>2, <1>6 DEF Numbered
  <2>4. QED
    BY <2>2, <2>3
<1>7. ASSUME NEW r \in Sessions, NEW n \in 1 .. counts'[r]
      PROVE  \E k \in 1 .. last : forensicLog'[k].session = r /\ forensicLog'[k].n = n
  <2>1. CASE r = s /\ n = counts[s] + 1
    BY <2>1, <1>2
  <2>2. CASE ~(r = s /\ n = counts[s] + 1)
    <3>1. n \in 1 .. counts[r]
      BY <2>2, <1>3, <1>7 DEF Numbered
    <3>2. PICK k \in 1 .. Len(forensicLog) : forensicLog[k].session = r /\ forensicLog[k].n = n
      BY <3>1 DEF Numbered
    <3>3. k \in 1 .. last /\ forensicLog'[k] = forensicLog[k]
      BY <1>2
    <3>4. QED
      BY <3>2, <3>3
  <2>3. QED
    BY <2>1, <2>2
<1>8. QED
  BY <1>2, <1>3, <1>5, <1>6, <1>7 DEF Numbered

(* The numbering is kept by every sequence of calls (active_response.cpp). *)
THEOREM NumberingHolds == ResponseSpec => []Numbered
<1>1. ResponseInit => Numbered
  BY EmptySeq DEF ResponseInit, Numbered, LogEntries
<1>2. Numbered /\ [ResponseNext]_responseVars => Numbered'
  <2> SUFFICES ASSUME Numbered, [ResponseNext]_responseVars PROVE Numbered'
    OBVIOUS
  <2>1. CASE UNCHANGED responseVars
    BY <2>1 DEF responseVars, Numbered
  <2>2. CASE \E s \in Sessions, hint \in Hints : Serve(s, hint)
    BY <2>2, ServeNumbers
  <2>3. QED
    BY <2>1, <2>2 DEF ResponseNext
<1>3. QED
  BY <1>1, <1>2, PTL DEF ResponseSpec

(* A session is never served better than before: response_tier, over any   *)
(* interleaving of any number of sessions.                                 *)
THEOREM ResponsesOnlyDegrade == ResponseSpec => []TiersOnlyRise
<1>1. Numbered => TiersOnlyRise
  <2> SUFFICES ASSUME Numbered, NEW s \in Sessions, NEW j \in Entries(s), NEW k \in Entries(s), j < k
               PROVE  forensicLog[j].tier <= forensicLog[k].tier
    BY DEF TiersOnlyRise
  <2>1. /\ j \in 1 .. Len(forensicLog) /\ k \in 1 .. Len(forensicLog)
        /\ forensicLog[j].session = forensicLog[k].session
    BY DEF Entries, Numbered
  <2>2. forensicLog[j].n \in Nat /\ forensicLog[k].n \in Nat
    BY <2>1 DEF Numbered, LogEntries
  <2>3. forensicLog[j].n < forensicLog[k].n
    BY <2>1 DEF Numbered
  <2>4. /\ forensicLog[j].tier = ResponseTier(forensicLog[j].n)
        /\ forensicLog[k].tier = ResponseTier(forensicLog[k].n)
    BY <2>1 DEF Numbered
  <2>5. forensicLog[j].n <= forensicLog[k].n
    BY <2>2, <2>3
  <2>6. ResponseTier(forensicLog[j].n) <= ResponseTier(forensicLog[k].n)
    BY <2>2, <2>5, TierRises
  <2>7. QED
    BY <2>4, <2>6
<1>2. QED
  BY <1>1, NumberingHolds, PTL

(* The forensic log has every interaction of every session once (serve).   *)
THEOREM LogIsComplete == ResponseSpec => []LogAccountsForAll
<1>1. Numbered => LogAccountsForAll
  <2> SUFFICES ASSUME Numbered PROVE LogAccountsForAll
    OBVIOUS
  <2>1. DOMAIN forensicLog = 1 .. Len(forensicLog)
    BY DEF Numbered
  <2>2. ASSUME NEW s \in Sessions, NEW n \in 1 .. counts[s]
        PROVE  \E k \in Entries(s) : forensicLog[k].n = n
    <3>1. PICK k \in 1 .. Len(forensicLog) : forensicLog[k].session = s /\ forensicLog[k].n = n
      BY DEF Numbered
    <3>2. QED
      BY <2>1, <3>1 DEF Entries
  <2>3. ASSUME NEW s \in Sessions, NEW j \in Entries(s), NEW k \in Entries(s), j < k
        PROVE  forensicLog[j].n < forensicLog[k].n
    BY <2>1, <2>3 DEF Entries, Numbered
  <2>4. QED
    BY <2>2, <2>3 DEF LogAccountsForAll
<1>2. QED
  BY <1>1, NumberingHolds, PTL

-----------------------------------------------------------------------------
(* -------------------- zero-trust engine and admission ------------------- *)

(* Access of any kind needs a known user, an ordinary action, a source     *)
(* that is neither public nor quarantined, and the enterprise zone as its  *)
(* destination (evaluate, whatever the other terms of the score).          *)
THEOREM AccessNeedsAKnownUser ==
  ASSUME NEW c, Evaluate(c) \in {"ALLOW", "LIMITED"}
  PROVE  /\ c.user \in KnownUsers
         /\ c.action \notin AnomalousActions
         /\ c.from \notin {"public", "quarantine"}
         /\ c.to = "enterprise"
<1>1. c.action \notin AnomalousActions /\ CrossZoneAllowed(c.from, c.to, "staff")
  BY DEF Evaluate
<1>2. c.to = "enterprise"
  BY <1>1 DEF CrossZoneAllowed, MayEnter
<1>3. c.from \notin {"public", "quarantine"}
  BY <1>1, <1>2 DEF CrossZoneAllowed
<1>4. TrustScore(c) >= 40
  BY <1>1 DEF Evaluate, TrustScore, Points
<1>5. c.user \in KnownUsers
  BY <1>4 DEF TrustScore, Points
<1>6. QED
  BY <1>1, <1>2, <1>3, <1>5

(* Whoever asks, the zones reserved to other roles stay closed: evaluate   *)
(* asks about the role "staff", so the management zone is denied to an     *)
(* administrator too.                                                      *)
THEOREM OtherZonesAreDenied ==
  ASSUME NEW c, c.to # "enterprise", c.action \notin AnomalousActions
  PROVE  Evaluate(c) = "DENY"
BY DEF Evaluate, CrossZoneAllowed, MayEnter

(* Full admission is earned by credentials, the directory and all four     *)
(* posture flags, never on the public network; only it gives resources,    *)
(* and only those of the user's role (build_decision, process).            *)
THEOREM FullAdmissionIsEarned ==
  ASSUME NEW r
  PROVE  /\ Decision(r).result = "ALLOW_FULL" => /\ r.ssid # "SmartBots" /\ r.domain # ""
                                                 /\ r.user \in Directory /\ Compliant(r)
         /\ Decision(r).resources # {} => Decision(r).result = "ALLOW_FULL"
         /\ Decision(r).resources \subseteq ResourcesOf(RoleOf(r.user))
<1>1. CASE r.ssid = "SmartBots"
  BY <1>1 DEF Decision
<1>2. CASE r.ssid # "SmartBots"
  BY <1>2 DEF Decision, Identified, Authenticated
<1>3. QED
  BY <1>1, <1>2

(* The network a device is put in says what was decided: the two ways the  *)
(* workflow is computed, process and process_verbose, agree.               *)
THEOREM ShownStepsAgree ==
  ASSUME NEW r
  PROVE  /\ Decision(r).vlan = "VLAN_200" <=> Decision(r).result = "ALLOW_FULL"
         /\ Steps(r)[5] <=> Decision(r).vlan \in {"VLAN_100", "VLAN_200"}
         /\ Steps(r)[8] <=> Steps(r)[5]
         /\ Decision(r).vlan = "VLAN_200" => Steps(r)[2] /\ Steps(r)[3] /\ Steps(r)[4] /\ Steps(r)[6]
<1>1. CASE r.ssid = "SmartBots"
  BY <1>1 DEF Decision, Steps
<1>2. CASE r.ssid # "SmartBots" /\ ~Identified(r)
  BY <1>2 DEF Decision, Steps
<1>3. CASE r.ssid # "SmartBots" /\ Identified(r) /\ ~Compliant(r)
  BY <1>3 DEF Decision, Steps
<1>4. CASE r.ssid # "SmartBots" /\ Identified(r) /\ Compliant(r)
  <2>1. /\ Decision(r).result = "ALLOW_FULL" /\ Decision(r).vlan = "VLAN_200"
        /\ Authenticated(r)
    BY <1>4 DEF Decision, Identified
  <2>2. QED
    BY <1>4, <2>1 DEF Steps
<1>5. QED
  BY <1>1, <1>2, <1>3, <1>4

-----------------------------------------------------------------------------
(* ------------------------------- AI triage ------------------------------ *)

(* No answer of a model lowers a signal: what RULE-02 is given is at least *)
(* the raw score, and asks for at least the tier the raw score asks for    *)
(* and, when an answer is usable, the tier suggested (triage, step 4).     *)
THEOREM ModelsNeverLower ==
  ASSUME NEW raw \in Int, NEW fast \in Answers, NEW heavy \in Answers
  PROVE  LET s == ScoreGiven(raw, fast, heavy)
         IN  /\ s >= raw
             /\ TierOf(Clamp(s)) >= TierOf(Clamp(raw))
             /\ Usable(fast, heavy) => TierOf(Clamp(s)) >= Suggested(fast, heavy)
<1> DEFINE s == ScoreGiven(raw, fast, heavy)
           t == Suggested(fast, heavy)
<1>1. t \in Tiers
  BY DEF Suggested, TierNamed, Tiers, LOW, MEDIUM, HIGH, CRITICAL
<1>2. /\ AdvisoryScore(t) \in 0 .. 100
      /\ TierOf(Clamp(AdvisoryScore(t))) >= t
  BY <1>1 DEF AdvisoryScore, TierOf, Clamp, Tiers, LOW, MEDIUM, HIGH, CRITICAL
<1>3. s \in Int /\ s >= raw /\ (Usable(fast, heavy) => s >= AdvisoryScore(t))
  BY <1>2 DEF ScoreGiven
<1>4. ASSUME NEW a \in Int, NEW b \in Int, a >= b
      PROVE  TierOf(Clamp(a)) >= TierOf(Clamp(b))
  BY <1>4 DEF TierOf, Clamp, LOW, MEDIUM, HIGH, CRITICAL
<1>5. TierOf(Clamp(s)) >= TierOf(Clamp(raw))
  BY <1>3, <1>4
<1>6. ASSUME Usable(fast, heavy) PROVE TierOf(Clamp(s)) >= t
  <2>1. TierOf(Clamp(s)) >= TierOf(Clamp(AdvisoryScore(t)))
    BY <1>2, <1>3, <1>4, <1>6
  <2>2. TierOf(Clamp(s)) \in Int /\ TierOf(Clamp(AdvisoryScore(t))) \in Int
    BY DEF TierOf, LOW, MEDIUM, HIGH, CRITICAL
  <2>3. QED
    BY <2>1, <2>2, <1>1, <1>2 DEF Tiers, LOW, CRITICAL
<1>7. QED
  BY <1>3, <1>5, <1>6

(* A suggestion that RULE-02 acts upon reaches the tier above it: 50 and   *)
(* 76, the scores of tier_to_score for MEDIUM and HIGH, lie in the bands   *)
(* of HIGH and CRITICAL (threat_level.h), so a model that says HIGH locks  *)
(* the process down whatever the raw score.                                *)
THEOREM SuggestionsOvershoot ==
  ASSUME NEW raw \in Int, NEW fast \in Answers, NEW heavy \in Answers,
         Usable(fast, heavy), Suggested(fast, heavy) \in {MEDIUM, HIGH}
  PROVE  TierOf(Clamp(ScoreGiven(raw, fast, heavy))) > Suggested(fast, heavy)
<1> DEFINE t == Suggested(fast, heavy)
<1>1. AdvisoryScore(t) = IF t = HIGH THEN 76 ELSE 50
  BY DEF AdvisoryScore, MEDIUM, HIGH, CRITICAL
<1>2. /\ ScoreGiven(raw, fast, heavy) \in Int
      /\ ScoreGiven(raw, fast, heavy) >= IF t = HIGH THEN 76 ELSE 50
  BY <1>1 DEF ScoreGiven
<1> HIDE DEF t
<1>3. t \in {MEDIUM, HIGH}
  BY DEF t
<1>4. TierOf(Clamp(ScoreGiven(raw, fast, heavy))) > t
  BY <1>2, <1>3 DEF TierOf, Clamp, LOW, MEDIUM, HIGH, CRITICAL
<1>5. QED
  BY <1>4 DEF t

(* While nobody else moves the tier between RULE-02 and the reading of it, *)
(* the tier reported is the machine's: the suggestion never stands above   *)
(* it (triage, final_tier), from whatever tier the machine started.        *)
THEOREM ReportedTierIsTheMachines ==
  ASSUME tier \in Tiers, NEW raw \in Int, NEW fast \in Answers, NEW heavy \in Answers,
         Usable(fast, heavy), ObserveSignal(ScoreGiven(raw, fast, heavy))
  PROVE  FinalTier(tier', fast, heavy) = tier'
<1> DEFINE s == Clamp(ScoreGiven(raw, fast, heavy))
<1>1. TierOf(s) >= Suggested(fast, heavy)
  BY ModelsNeverLower
<1>2. TierOf(s) \in Int /\ Suggested(fast, heavy) \in Int
  BY DEF TierOf, Suggested, TierNamed, LOW, MEDIUM, HIGH, CRITICAL
<1> HIDE DEF s
<1>3. tier' \in Int /\ tier' >= TierOf(s)
  <2>1. ObserveClamped(s)
    BY DEF ObserveSignal, s
  <2>2. CASE Escalates(s) \/ Deescalates(s)
    BY <2>1, <2>2, <1>2 DEF ObserveClamped, DoTransition
  <2>3. CASE ~Escalates(s) /\ ~Deescalates(s)
    BY <2>1, <2>3, <1>2 DEF ObserveClamped, Escalates, Tiers, LOW, CRITICAL
  <2>4. QED
    BY <2>2, <2>3
<1>4. QED
  BY <1>1, <1>2, <1>3 DEF FinalTier

-----------------------------------------------------------------------------
(* --------------------------- action dispatcher -------------------------- *)

(* An answer leads to one kind of action at most, and to none by an agent  *)
(* no list of the policy names (dispatch, policy_engine.cpp): the order of *)
(* the tries never matters.                                                *)
THEOREM OneKindAtMost ==
  ASSUME NEW agent, NEW o, NEW ok, NEW t \in Tried(agent, o, ok), NEW u \in Tried(agent, o, ok)
  PROVE  /\ t = u
         /\ agent \in FirewallAgents \cup QuarantineAgents \cup DeceptionAgents \cup ZeroTrustAgents
BY DEF Tried, TriesFirewall, TriesQuarantine, TriesDeception, TriesZeroTrust,
   FirewallAgents, QuarantineAgents, DeceptionAgents, ZeroTrustAgents

(* The kind that is reported is the one that was tried, and "advisory" is  *)
(* reported when none was; an action is taken only if one was tried.       *)
THEOREM ReportedKindWasTried ==
  ASSUME NEW agent, NEW o, NEW ok
  PROVE  /\ ActionType(agent, o, ok) # "advisory" => ActionType(agent, o, ok) \in Tried(agent, o, ok)
         /\ ActionType(agent, o, ok) = "advisory" => Tried(agent, o, ok) = {}
         /\ Taken(agent, o, ok) => Tried(agent, o, ok) # {}
BY DEF Tried, ActionType, Taken, BlocksIp, MovesFile, Denies

(* Where an address that may be blocked is written, one is extracted and   *)
(* only one: the first of them.  The least index is one below which the    *)
(* fewest are.                                                             *)
LEMMA FirstIsExtracted ==
  ASSUME NEW Addresses, NEW s \in Seq(Addresses), NEW n \in DOMAIN s, ~SafeIp(s[n])
  PROVE  \E i \in DOMAIN s :
           /\ ~SafeIp(s[i]) /\ \A j \in 1 .. i-1 : SafeIp(s[j])
           /\ Extracted(s) = {s[i]}
<1> DEFINE S == {k \in DOMAIN s : ~SafeIp(s[k])}
           below(k) == {j \in S : j < k}
           T == {below(k) : k \in S}
<1>1. DOMAIN s = 1 .. Len(s) /\ Len(s) \in Nat
  OBVIOUS
<1>2. S \subseteq 1 .. Len(s) /\ n \in S /\ IsFiniteSet(S)
  <2>1. IsFiniteSet(1 .. Len(s))
    BY <1>1, FS_Interval
  <2>2. S \subseteq 1 .. Len(s) /\ n \in S
    BY <1>1
  <2> HIDE DEF S
  <2>3. QED
    BY <2>1, <2>2, FS_Subset
<1>3. \A k : k \in S <=> k \in DOMAIN s /\ ~SafeIp(s[k])
  OBVIOUS
<1> HIDE DEF S
<1>4. T \subseteq FiniteSubsetsOf(S) /\ T # {}
  <2>1. SUBSET S = FiniteSubsetsOf(S)
    BY <1>2, FS_FiniteSubsetsOfFinite
  <2>2. \A k \in S : below(k) \in SUBSET S
    OBVIOUS
  <2> HIDE DEF below
  <2>3. QED
    BY <1>2, <2>1, <2>2
<1>5. PICK A \in T : \A B \in T : <<B, A>> \notin StrictSubsetOrdering(S)
  <2> HIDE DEF T
  <2>1. QED
    BY <1>2, <1>4, FS_StrictSubsetOrderingWellFounded, WFMin
<1>6. PICK i \in S : A = below(i)
  BY <1>5
<1>7. \A k \in S : k \in Nat
  BY <1>1, <1>2
<1>8. \A k \in S : ~ (k < i)
  <2> SUFFICES ASSUME NEW k \in S, k < i PROVE FALSE
    OBVIOUS
  <2>1. below(k) \subseteq A /\ k \in A /\ k \notin below(k) /\ below(k) \in T /\ A \subseteq S
    BY <1>6, <1>7
  <2>2. <<below(k), A>> \in StrictSubsetOrdering(S)
    BY <2>1 DEF StrictSubsetOrdering
  <2>3. QED
    BY <1>5, <2>1, <2>2
<1>9. i \in DOMAIN s /\ ~SafeIp(s[i]) /\ \A j \in 1 .. i-1 : SafeIp(s[j])
  <2>1. i \in DOMAIN s /\ ~SafeIp(s[i])
    BY <1>3
  <2>2. \A j \in 1 .. i-1 : j \in DOMAIN s /\ j < i
    BY <1>1, <1>7, <2>1
  <2>3. QED
    BY <1>3, <1>8, <2>1, <2>2
<1>10. \A k \in DOMAIN s : ~SafeIp(s[k]) /\ (\A j \in 1 .. k-1 : SafeIp(s[j])) => k = i
  <2> SUFFICES ASSUME NEW k \in DOMAIN s, ~SafeIp(s[k]), \A j \in 1 .. k-1 : SafeIp(s[j])
               PROVE  k = i
    OBVIOUS
  <2>1. k \in Nat \ {0} /\ i \in Nat \ {0}
    BY <1>1, <1>9
  <2>2. i \notin 1 .. k-1 /\ k \notin 1 .. i-1
    BY <1>9
  <2>3. QED
    BY <2>1, <2>2
<1>11. Extracted(s) = {s[i]}
  BY <1>9, <1>10 DEF Extracted
<1>12. QED
  BY <1>9, <1>11

(* An answer has one target or none: none when every address it mentions   *)
(* is one that is_safe_ip excepts, and else one that is not, the first of  *)
(* those in its place, from a later place only when all the addresses in   *)
(* the earlier ones are excepted (extract_ipv4, try_firewall_block).       *)
THEOREM TargetIsFirst ==
  ASSUME NEW Addresses, NEW o,
         o.containment \in Seq(Addresses), o.iocs \in Seq(Addresses), o.text \in Seq(Addresses)
  PROVE  LET Excepted(s) == \A n \in DOMAIN s : SafeIp(s[n])
             First(a, s) == \E i \in DOMAIN s : /\ a = s[i] /\ ~SafeIp(a)
                                               /\ \A j \in 1 .. i-1 : SafeIp(s[j])
         IN  \/ /\ Targets(o) = {}
                /\ Excepted(o.containment) /\ Excepted(o.iocs) /\ Excepted(o.text)
             \/ \E a \in Addresses :
                  /\ Targets(o) = {a}
                  /\ \/ First(a, o.containment)
                     \/ Excepted(o.containment) /\ First(a, o.iocs)
                     \/ Excepted(o.containment) /\ Excepted(o.iocs) /\ First(a, o.text)
<1> DEFINE Excepted(s) == \A n \in DOMAIN s : SafeIp(s[n])
           First(a, s) == \E i \in DOMAIN s : /\ a = s[i] /\ ~SafeIp(a)
                                             /\ \A j \in 1 .. i-1 : SafeIp(s[j])
<1>1. \A s \in Seq(Addresses) : Excepted(s) => Extracted(s) = {}
  BY DEF Extracted
<1>2. \A s \in Seq(Addresses) :
        Excepted(s) \/ \E a \in Addresses : Extracted(s) = {a} /\ First(a, s)
  <2> SUFFICES ASSUME NEW s \in Seq(Addresses), ~Excepted(s)
               PROVE  \E a \in Addresses : Extracted(s) = {a} /\ First(a, s)
    OBVIOUS
  <2>1. PICK n \in DOMAIN s : ~SafeIp(s[n])
    OBVIOUS
  <2>2. PICK i \in DOMAIN s : /\ ~SafeIp(s[i]) /\ \A j \in 1 .. i-1 : SafeIp(s[j])
                              /\ Extracted(s) = {s[i]}
    BY <2>1, FirstIsExtracted
  <2>3. s[i] \in Addresses
    BY <2>2
  <2>4. QED
    BY <2>2, <2>3
<1> HIDE DEF Excepted, First
<1>3. QED
  <2>1. CASE ~Excepted(o.containment)
    BY <1>2, <2>1 DEF Targets, First
  <2>2. CASE Excepted(o.containment) /\ ~Excepted(o.iocs)
    BY <1>1, <1>2, <2>2 DEF Targets, First, Excepted
  <2>3. CASE Excepted(o.containment) /\ Excepted(o.iocs) /\ ~Excepted(o.text)
    BY <1>1, <1>2, <2>3 DEF Targets, First, Excepted
  <2>4. CASE Excepted(o.containment) /\ Excepted(o.iocs) /\ Excepted(o.text)
    BY <1>1, <2>4 DEF Targets, Excepted
  <2>5. QED
    BY <2>1, <2>2, <2>3, <2>4

(* A zero-trust agent's answer always ends in a denial, whatever it says,  *)
(* unless it names one of the four anomalous actions: the access it asks   *)
(* about has an unknown user from an unknown zone (try_zerotrust_deny).    *)
THEOREM AssessmentsAreDenied ==
  ASSUME NEW agent \in ZeroTrustAgents, NEW o, NEW ok
  PROVE  Taken(agent, o, ok) <=> o.resource \notin AnomalousActions
<1>1. TriesZeroTrust(agent, o, ok)
  BY DEF TriesZeroTrust, TriesDeception, BlocksIp, MovesFile, TriesFirewall, TriesQuarantine,
     FirewallAgents, QuarantineAgents, DeceptionAgents, ZeroTrustAgents
<1>2. ~BlocksIp(agent, o, ok) /\ ~MovesFile(agent, o, ok) /\ ~TriesDeception(agent, o, ok)
  BY <1>1 DEF TriesZeroTrust
<1>3. CASE o.resource \in AnomalousActions
  BY <1>2, <1>3 DEF Taken, Denies, Evaluate, Assessment
<1>4. CASE o.resource \notin AnomalousActions
  <2>1. CrossZoneAllowed("unknown", "enterprise", "staff")
    BY DEF CrossZoneAllowed, MayEnter
  <2>2. TrustScore(Assessment(o)) = 20
    BY <1>4 DEF TrustScore, Points, Assessment, KnownUsers
  <2>3. Evaluate(Assessment(o)) = "QUARANTINE"
    <3>1. /\ Assessment(o).action = o.resource /\ Assessment(o).from = "unknown"
          /\ Assessment(o).to = "enterprise"
      BY DEF Assessment
    <3>2. QED
      BY <1>4, <2>1, <2>2, <3>1 DEF Evaluate
  <2>4. QED
    BY <1>1, <1>4, <2>3 DEF Taken, Denies
<1>5. QED
  BY <1>3, <1>4

-----------------------------------------------------------------------------
(* --------------------------- firewall blocker --------------------------- *)

(* Where a thread holds the mutex, and which address or stem is in the     *)
(* middle of a removal or of a block.                                      *)
Holding == Adding \cup Deleting \cup {"scan", "close"}
BeingDeleted(ip) == \E t \in Threads : pc[t] \in Deleting /\ job[t].ip = ip
BeingAdded(s) == \E t \in Threads : pc[t] \in Adding /\ job[t].stem = s

(* What the types of firewall_blocker.h say of each thread, as functions.  *)
Shaped ==
  /\ pc \in [Threads -> Adding \cup Deleting \cup
                        {"idle", "head", "lock", "scan", "join", "close", "done"}]
  /\ job \in [Threads -> Jobs \cup {NoJob}]

(* A stem names one block: that of a record, or the one being added.       *)
StemsDiffer ==
  /\ \A ip \in Recorded : blocks[ip].stem <= stems /\ ~BeingAdded(blocks[ip].stem)
  /\ \A ip, jp \in Recorded : blocks[ip].stem = blocks[jp].stem => ip = jp
  /\ \A t \in Threads : pc[t] \in Adding => job[t].stem = stems /\ blocks[job[t].ip] = NoBlock
  /\ \A t \in Threads : pc[t] \in Deleting =>
       job[t].ip \in Recorded /\ blocks[job[t].ip].stem = job[t].stem

(* A netsh process nobody waits for works on an excused rule; if it        *)
(* deletes, its block is neither being added nor recorded for long.        *)
OverdueIsHarmless ==
  \A o \in overdue :
    /\ o.rule \in excused /\ o.rule.stem <= stems
    /\ o.op = "delete" =>
         /\ ~BeingAdded(o.rule.stem)
         /\ \A ip \in Recorded : blocks[ip].stem = o.rule.stem => BeingDeleted(ip)

Enforced ==
  /\ \A ip \in Recorded : BeingDeleted(ip) \/ \E r \in rules : r.stem = blocks[ip].stem
  /\ \A t \in Threads : pc[t] = "add_out" /\ job[t].ok => Rule(job[t].stem, "in") \in rules

Accounted ==
  /\ \A r \in rules \ excused :
       \/ \E ip \in Recorded : blocks[ip].stem = r.stem
       \/ \E t \in Threads : pc[t] = "add_out" /\ job[t].ok /\ job[t].stem = r.stem
  /\ \A t \in Threads : pc[t] = "delete_out" => Rule(job[t].stem, "in") \notin rules \ excused

(* The destructor runs alone.                                              *)
ClosesAlone ==
  /\ running <=> pc[Owner] = "idle"
  /\ ~running => \A t \in Callers : pc[t] = "idle"
  /\ pc[Owner] \in Deleting \cup {"close", "done"} => pc[Loop] = "done"
  /\ pc[Owner] = "done" => Recorded = {}

FirewallInv ==
  FirewallTypeOK /\ Shaped /\ StemsDiffer /\ OverdueIsHarmless /\ Enforced /\ Accounted /\ ClosesAlone

-----------------------------------------------------------------------------
(* Most steps move one thread, which keeps, takes or leaves the mutex.     *)
ThreadsTyped ==
  /\ mutex \in Threads \cup {Free}
  /\ \A t \in Threads :
       /\ pc[t] \in PCsOf(t)
       /\ job[t] \in IF pc[t] \in Adding \cup Deleting THEN Jobs ELSE {NoJob}
       /\ mutex = t <=> pc[t] \in Holding

Moves(t, where, j) ==
  /\ pc' = [pc EXCEPT ![t] = where]
  /\ job' = [job EXCEPT ![t] = j]
  /\ where \in PCsOf(t)
  /\ j \in IF where \in Adding \cup Deleting THEN Jobs ELSE {NoJob}
  /\ where \in Holding => mutex \in {Free, t}
  /\ mutex' = IF where \in Holding THEN t ELSE IF mutex = t THEN Free ELSE mutex

(* The value for a free mutex is no thread.                                *)
LEMMA FreeIsNobody == Free \notin Threads /\ Loop \in Threads /\ Owner \in Threads /\ Callers \subseteq Threads
  BY ThreadsDiffer DEF Threads

(* No thread is at a place outside those of the program.                   *)
LEMMA PlacesKnown ==
  \A t \in Threads : PCsOf(t) \subseteq
     Adding \cup Deleting \cup {"idle", "head", "lock", "scan", "join", "close", "done"}
  BY DEF PCsOf

(* The types include that the mutex is held by who is inside.              *)
LEMMA TypesOfThreads == FirewallTypeOK => ThreadsTyped
  BY DEF FirewallTypeOK, ThreadsTyped, Holding

(* A move keeps the types and touches the moved thread only.               *)
LEMMA MoveIsTyped ==
  ASSUME ThreadsTyped, Shaped, NEW t \in Threads, NEW where, NEW j, Moves(t, where, j)
  PROVE  /\ ThreadsTyped' /\ Shaped'
         /\ pc'[t] = where /\ job'[t] = j
         /\ \A u \in Threads \ {t} : pc'[u] = pc[u] /\ job'[u] = job[u]
<1>1. /\ pc'[t] = where /\ job'[t] = j
      /\ \A u \in Threads \ {t} : pc'[u] = pc[u] /\ job'[u] = job[u]
  BY DEF Moves, Shaped
<1>2. Shaped'
  BY PlacesKnown DEF Moves, Shaped
<1>3. mutex' \in Threads \cup {Free}
  BY DEF Moves, ThreadsTyped
<1>4. ASSUME NEW u \in Threads
      PROVE  /\ pc'[u] \in PCsOf(u)
             /\ job'[u] \in IF pc'[u] \in Adding \cup Deleting THEN Jobs ELSE {NoJob}
             /\ mutex' = u <=> pc'[u] \in Holding
  <2>1. CASE u = t
    BY <1>1, <2>1, FreeIsNobody DEF Moves, ThreadsTyped
  <2>2. CASE u # t
    BY <1>1, <2>2, FreeIsNobody DEF Moves, ThreadsTyped
  <2>3. QED
    BY <2>1, <2>2
<1>5. QED
  BY <1>1, <1>2, <1>3, <1>4 DEF ThreadsTyped

(* A thread that holds the mutex before or after its move is the only one  *)
(* that adds or deletes.                                                   *)
LEMMA HolderIsAlone ==
  ASSUME ThreadsTyped, Shaped, NEW t \in Threads, NEW where, NEW j, Moves(t, where, j),
         pc[t] \in Holding \/ where \in Holding
  PROVE  /\ \A u \in Threads \ {t} : pc[u] \notin Holding /\ pc'[u] \notin Holding
         /\ \A ip : /\ BeingDeleted(ip) <=> pc[t] \in Deleting /\ job[t].ip = ip
                    /\ BeingDeleted(ip)' <=> where \in Deleting /\ j.ip = ip
         /\ \A s : /\ BeingAdded(s) <=> pc[t] \in Adding /\ job[t].stem = s
                   /\ BeingAdded(s)' <=> where \in Adding /\ j.stem = s
<1>1. \A u \in Threads \ {t} : pc[u] \notin Holding /\ pc'[u] \notin Holding
  <2>1. mutex \in {Free, t}
    BY DEF Moves, ThreadsTyped
  <2>2. QED
    BY <2>1, MoveIsTyped, FreeIsNobody DEF ThreadsTyped
<1>2. Adding \subseteq Holding /\ Deleting \subseteq Holding
  BY DEF Holding
<1>3. pc'[t] = where /\ job'[t] = j
  BY MoveIsTyped
<1>4. QED
  BY <1>1, <1>2, <1>3 DEF BeingDeleted, BeingAdded

(* What netsh may do to the rules.                                         *)
LEMMA AddRuleEffect ==
  ASSUME NEW r, NEW ok \in BOOLEAN, AddRule(r, ok)
  PROVE  /\ rules' = IF ok THEN rules \cup {r} ELSE rules
         /\ excused \subseteq excused' /\ excused' \subseteq excused \cup {r}
         /\ \A o \in overdue' : o \in overdue \/ (o = [op |-> "add", rule |-> r] /\ r \in excused')
<1>1. CASE ok
  BY <1>1 DEF AddRule
<1>2. CASE ~ok
  <2>1. UNCHANGED rules
    BY <1>2 DEF AddRule, Fails
  <2>2. \/ UNCHANGED overdue /\ excused' = excused
        \/ overdue' = overdue \cup {[op |-> "add", rule |-> r]} /\ excused' = excused \cup {r}
    BY <1>2 DEF AddRule, Fails
  <2>3. QED
    BY <1>2, <2>1, <2>2
<1>3. QED
  BY <1>1, <1>2

(* A deletion that fails or is late leaves at most an excused rule.        *)
LEMMA DeleteRuleEffect ==
  ASSUME NEW r, DeleteRule(r)
  PROVE  /\ rules' \subseteq rules /\ rules \ {r} \subseteq rules'
         /\ r \notin rules' \ excused'
         /\ excused \subseteq excused' /\ excused' \subseteq excused \cup {r}
         /\ \A o \in overdue' : o \in overdue \/ (o = [op |-> "delete", rule |-> r] /\ r \in excused')
<1>1. \/ rules' = rules \ {r} /\ UNCHANGED <<overdue, excused>>
      \/ UNCHANGED <<rules, overdue>> /\ excused' = excused \cup (rules \cap {r})
      \/ /\ UNCHANGED rules
         /\ overdue' = overdue \cup {[op |-> "delete", rule |-> r]} /\ excused' = excused \cup {r}
  BY DEF DeleteRule, Fails
<1>2. QED
  BY <1>1

(* The blocker starts with no record, no rule and no netsh process.        *)
LEMMA FirewallInitEstablishes == FirewallInit => FirewallInv
<1> SUFFICES ASSUME FirewallInit PROVE FirewallInv
  OBVIOUS
<1>1. /\ \A t \in Threads : pc[t] \in {"idle", "head"} /\ job[t] = NoJob /\ mutex # t
      /\ pc[Owner] = "idle" /\ pc[Loop] = "head" /\ \A t \in Callers : pc[t] = "idle"
      /\ \A t \in Threads : pc[t] = "head" <=> t = Loop
  BY FreeIsNobody, ThreadsDiffer DEF FirewallInit
<1>2. \A t \in Threads : pc[t] \notin Holding /\ pc[t] \notin Adding \cup Deleting /\ pc[t] \in PCsOf(t)
  BY <1>1 DEF Holding, Adding, Deleting, PCsOf
<1>3. Recorded = {}
  BY DEF FirewallInit, Recorded
<1>4. FirewallTypeOK
  BY <1>1, <1>2, BlocksBounded DEF FirewallInit, FirewallTypeOK, Holding
<1>5. Shaped
  BY <1>1 DEF FirewallInit, Shaped
<1>6. StemsDiffer /\ OverdueIsHarmless /\ Enforced /\ Accounted
  BY <1>2, <1>3 DEF FirewallInit, StemsDiffer, OverdueIsHarmless, Enforced, Accounted, Adding, Deleting
<1>7. ClosesAlone
  BY <1>1, <1>3 DEF FirewallInit, ClosesAlone, Deleting
<1>8. QED
  BY <1>4, <1>5, <1>6, <1>7 DEF FirewallInv

-----------------------------------------------------------------------------
(* Steps that touch neither the host nor the blocks, of a thread that is   *)
(* not adding or deleting before or after.                                 *)
LEMMA QuietMoves ==
  ASSUME FirewallInv, NEW t \in Threads, NEW where, Moves(t, where, job[t]),
         pc[t] \notin Adding \cup Deleting, where \notin Adding \cup Deleting,
         UNCHANGED <<hostVars, blocks, stems>>,
         due' \subseteq Stems, running' \in BOOLEAN
  PROVE  FirewallTypeOK' /\ Shaped' /\ StemsDiffer' /\ OverdueIsHarmless' /\ Enforced' /\ Accounted'
<1>1. ThreadsTyped' /\ Shaped'
  BY TypesOfThreads, MoveIsTyped DEF FirewallInv
<1>2. FirewallTypeOK'
  BY <1>1 DEF FirewallInv, FirewallTypeOK, ThreadsTyped, Holding, hostVars
<1>3. /\ \A u \in Threads : pc'[u] \in Adding <=> pc[u] \in Adding
      /\ \A u \in Threads : pc'[u] \in Deleting <=> pc[u] \in Deleting
      /\ \A u \in Threads : pc'[u] = "add_out" <=> pc[u] = "add_out"
      /\ \A u \in Threads : pc'[u] = "delete_out" <=> pc[u] = "delete_out"
  BY TypesOfThreads, MoveIsTyped DEF FirewallInv, Adding, Deleting
<1>4. job' = job /\ Recorded' = Recorded
  BY DEF Moves, FirewallInv, Shaped, Recorded
<1>5. /\ \A ip : BeingDeleted(ip)' <=> BeingDeleted(ip)
      /\ \A s : BeingAdded(s)' <=> BeingAdded(s)
  BY <1>3, <1>4 DEF BeingDeleted, BeingAdded
<1>6. StemsDiffer'
  BY <1>3, <1>4, <1>5 DEF FirewallInv, StemsDiffer
<1>7. OverdueIsHarmless'
  BY <1>4, <1>5 DEF FirewallInv, OverdueIsHarmless, hostVars
<1>8. Enforced'
  BY <1>3, <1>4, <1>5 DEF FirewallInv, Enforced, hostVars
<1>9. Accounted'
  BY <1>3, <1>4 DEF FirewallInv, Accounted, hostVars
<1>10. QED
  BY <1>1, <1>2, <1>6, <1>7, <1>8, <1>9

(* A removal begins with its record still there. *)
LEMMA RemovalBegins ==
  ASSUME FirewallInv, NEW t \in Threads, NEW ip \in Recorded,
         Moves(t, "delete_in", [ip |-> ip, stem |-> blocks[ip].stem, ok |-> FALSE]),
         pc[t] \notin Adding \cup Deleting,
         UNCHANGED <<hostVars, blocks, due, running, stems>>
  PROVE  FirewallTypeOK' /\ Shaped' /\ StemsDiffer' /\ OverdueIsHarmless' /\ Enforced' /\ Accounted'
<1> DEFINE j == [ip |-> ip, stem |-> blocks[ip].stem, ok |-> FALSE]
<1>1. ThreadsTyped' /\ Shaped'
  BY TypesOfThreads, MoveIsTyped DEF FirewallInv
<1>2. FirewallTypeOK'
  BY <1>1 DEF FirewallInv, FirewallTypeOK, ThreadsTyped, Holding, hostVars
<1>3. /\ \A u \in Threads \ {t} : pc[u] \notin Holding /\ pc'[u] \notin Holding
      /\ pc'[t] = "delete_in" /\ job'[t] = j
      /\ \A jp : ~BeingDeleted(jp) /\ (BeingDeleted(jp)' <=> ip = jp)
      /\ \A s : ~BeingAdded(s) /\ ~BeingAdded(s)'
  <2>1. "delete_in" \in Holding /\ "delete_in" \in Deleting /\ "delete_in" \notin Adding /\ j.ip = ip
    BY DEF Holding, Deleting, Adding
  <2>2. QED
    BY <2>1, TypesOfThreads, MoveIsTyped, HolderIsAlone DEF FirewallInv
<1>4. /\ \A u \in Threads : pc'[u] \notin Adding /\ pc'[u] # "delete_out"
      /\ \A u \in Threads : pc[u] \notin Adding
      /\ \A u \in Threads : pc'[u] \in Deleting => u = t
  BY <1>3 DEF Holding, Adding, Deleting
<1>5. Recorded' = Recorded
  BY DEF Recorded
<1>6. StemsDiffer'
  BY <1>3, <1>4, <1>5 DEF FirewallInv, StemsDiffer
<1>7. OverdueIsHarmless'
  BY <1>3, <1>5 DEF FirewallInv, OverdueIsHarmless, hostVars
<1>8. Enforced'
  BY <1>3, <1>4, <1>5 DEF FirewallInv, Enforced, hostVars, Adding
<1>9. Accounted'
  BY <1>4, <1>5 DEF FirewallInv, Accounted, hostVars, Adding
<1>10. QED
  BY <1>1, <1>2, <1>6, <1>7, <1>8, <1>9

(* block() *)
LEMMA BlockBeginsPreserves ==
  ASSUME FirewallInv, NEW t \in Callers, NEW ip \in Ips, BlockBegins(t, ip)
  PROVE  FirewallInv'
<1> DEFINE j == [ip |-> ip, stem |-> stems + 1, ok |-> FALSE]
<1>1. /\ t \in Threads /\ t # Loop /\ t # Owner
      /\ stems \in Nat /\ stems' = stems + 1 /\ stems' \in Stems /\ stems' \in 0 .. MaxBlocks
      /\ mutex = Free /\ pc[t] = "idle" /\ running /\ blocks[ip] = NoBlock
      /\ UNCHANGED <<rules, overdue, excused, blocks, due, running>>
  BY FreeIsNobody, ThreadsDiffer, BlocksBounded DEF FirewallInv, FirewallTypeOK, BlockBegins, Stems, hostVars
<1>2. Moves(t, "add_in", j)
  BY <1>1 DEF Moves, BlockBegins, Does, Goto, PCsOf, Adding, Deleting, Holding, Jobs
<1>3. ThreadsTyped' /\ Shaped'
  BY <1>1, <1>2, TypesOfThreads, MoveIsTyped DEF FirewallInv
<1>4. FirewallTypeOK'
  BY <1>1, <1>3 DEF FirewallInv, FirewallTypeOK, ThreadsTyped, Holding
<1>5. /\ \A u \in Threads \ {t} : pc[u] \notin Holding /\ pc'[u] \notin Holding
      /\ pc'[t] = "add_in" /\ job'[t] = j
      /\ \A jp : ~BeingDeleted(jp) /\ ~BeingDeleted(jp)'
      /\ \A s : ~BeingAdded(s) /\ (BeingAdded(s)' <=> s = stems + 1)
  <2>1. /\ "add_in" \in Holding /\ "add_in" \in Adding /\ "add_in" \notin Deleting /\ j.stem = stems + 1
        /\ "idle" \notin Adding \cup Deleting
    BY DEF Holding, Deleting, Adding
  <2>2. QED
    BY <1>1, <1>2, <2>1, TypesOfThreads, MoveIsTyped, HolderIsAlone DEF FirewallInv
<1>6. /\ \A u \in Threads : pc'[u] \notin Deleting /\ pc'[u] \notin {"add_out", "delete_out"}
      /\ \A u \in Threads : pc'[u] \in Adding => u = t
      /\ \A u \in Threads : pc[u] # "add_out"
  BY <1>1, <1>5 DEF Holding, Adding, Deleting
<1>7. Recorded' = Recorded
  BY <1>1 DEF Recorded
<1>8. \A jp \in Recorded : blocks[jp].stem \in Nat
  BY DEF FirewallInv, FirewallTypeOK, Recorded, Blocks, Stems
<1>9. StemsDiffer'
  BY <1>1, <1>5, <1>6, <1>7, <1>8 DEF FirewallInv, StemsDiffer
<1>10. OverdueIsHarmless'
  <2>1. \A o \in overdue : o.rule.stem \in Nat
    BY DEF FirewallInv, FirewallTypeOK, Rules, Stems
  <2>2. QED
    BY <1>1, <1>5, <1>7, <2>1 DEF FirewallInv, OverdueIsHarmless
<1>11. Enforced' /\ Accounted'
  BY <1>1, <1>5, <1>6, <1>7 DEF FirewallInv, Enforced, Accounted
<1>12. ClosesAlone'
  BY <1>1, <1>2, MoveIsTyped, TypesOfThreads, FreeIsNobody, <1>7 DEF FirewallInv, ClosesAlone
<1>13. QED
  BY <1>3, <1>4, <1>9, <1>10, <1>11, <1>12 DEF FirewallInv

(* The inbound rule of a block, of which netsh says whether it was added.  *)
LEMMA AddInPreserves ==
  ASSUME FirewallInv, NEW t \in Callers, AddIn(t)
  PROVE  FirewallInv'
<1> DEFINE s == job[t].stem
<1> DEFINE r == Rule(s, "in")
<1>1. PICK ok \in BOOLEAN : AddRule(r, ok) /\ Does(t, [job[t] EXCEPT !.ok = ok])
  BY DEF AddIn
<1> DEFINE j == [job[t] EXCEPT !.ok = ok]
<1>2. /\ t \in Threads /\ t # Loop /\ t # Owner /\ pc[t] = "add_in" /\ mutex = t
      /\ job[t] \in Jobs /\ j \in Jobs /\ j.stem = s /\ j.ip = job[t].ip /\ j.ok = ok
      /\ s \in Stems /\ s = stems /\ blocks[job[t].ip] = NoBlock
      /\ UNCHANGED <<blocks, mutex, due, running, stems>>
  BY FreeIsNobody, ThreadsDiffer DEF FirewallInv, FirewallTypeOK, StemsDiffer, AddIn, Adding, Working, Jobs
<1>3. Moves(t, "add_out", j)
  BY <1>1, <1>2, FreeIsNobody DEF Moves, AddIn, Does, Goto, PCsOf, Adding, Deleting, Holding
<1> HIDE DEF j
<1>4. ThreadsTyped' /\ Shaped'
  BY <1>2, <1>3, TypesOfThreads, MoveIsTyped DEF FirewallInv
<1>5. /\ \A u \in Threads \ {t} : pc[u] \notin Holding /\ pc'[u] \notin Holding
      /\ pc'[t] = "add_out" /\ job'[t] = j
      /\ \A jp : ~BeingDeleted(jp) /\ ~BeingDeleted(jp)'
      /\ \A x : (BeingAdded(x) <=> x = s) /\ (BeingAdded(x)' <=> x = s)
  <2>1. /\ {"add_in", "add_out"} \subseteq Holding /\ {"add_in", "add_out"} \subseteq Adding
        /\ {"add_in", "add_out"} \cap Deleting = {}
    BY DEF Holding, Deleting, Adding
  <2>2. QED
    BY <1>2, <1>3, <2>1, TypesOfThreads, MoveIsTyped, HolderIsAlone DEF FirewallInv
<1>6. /\ \A u \in Threads : pc'[u] \notin Deleting /\ pc'[u] # "delete_out"
      /\ \A u \in Threads : pc'[u] \in Adding => u = t
      /\ \A u \in Threads : pc[u] # "add_out"
  BY <1>2, <1>5 DEF Holding, Adding, Deleting
<1>7. Recorded' = Recorded
  BY <1>2 DEF Recorded
<1>8. /\ r \in Rules /\ r.stem = s
      /\ rules' = (IF ok THEN rules \cup {r} ELSE rules)
      /\ excused \subseteq excused' /\ excused' \subseteq excused \cup {r}
      /\ \A o \in overdue' : o \in overdue \/ (o = [op |-> "add", rule |-> r] /\ r \in excused')
  BY <1>1, <1>2, AddRuleEffect DEF Rules, Rule
<1> HIDE DEF s, r
<1>9. FirewallTypeOK'
  <2>1. rules' \subseteq Rules /\ excused' \subseteq Rules
    BY <1>8 DEF FirewallInv, FirewallTypeOK
  <2>2. overdue' \subseteq [op : {"add", "delete"}, rule : Rules]
    BY <1>8 DEF FirewallInv, FirewallTypeOK
  <2>3. QED
    BY <1>2, <1>4, <2>1, <2>2 DEF FirewallInv, FirewallTypeOK, ThreadsTyped, Holding
<1>10. StemsDiffer'
  BY <1>2, <1>5, <1>6, <1>7 DEF FirewallInv, StemsDiffer
<1>11. OverdueIsHarmless'
  <2>1. ASSUME NEW o \in overdue' PROVE o.rule \in excused' /\ o.rule.stem <= stems
    <3>1. CASE o \in overdue
      BY <1>8, <3>1 DEF FirewallInv, OverdueIsHarmless
    <3>2. CASE o = [op |-> "add", rule |-> r] /\ r \in excused'
      BY <1>2, <1>8, <3>2, BlocksBounded DEF Stems
    <3>3. QED
      BY <1>8, <3>1, <3>2
  <2>2. ASSUME NEW o \in overdue', o.op = "delete"
        PROVE  ~BeingAdded(o.rule.stem)' /\ \A ip \in Recorded : blocks[ip].stem # o.rule.stem
    <3>1. o \in overdue
      BY <1>8, <2>2
    <3>2. QED
      BY <1>5, <2>2, <3>1 DEF FirewallInv, OverdueIsHarmless
  <2>3. QED
    BY <1>2, <1>7, <2>1, <2>2 DEF OverdueIsHarmless
<1>12. Enforced'
  <2>1. rules \subseteq rules' /\ (ok => r \in rules')
    BY <1>8
  <2>2. \A ip \in Recorded : \E x \in rules : x.stem = blocks[ip].stem
    BY <1>5 DEF FirewallInv, Enforced
  <2>3. \A u \in Threads : pc'[u] = "add_out" => u = t
    BY <1>6 DEF Adding
  <2>4. QED
    BY <1>2, <1>5, <1>7, <2>1, <2>2, <2>3 DEF Enforced, r
<1>13. Accounted'
  <2>1. ASSUME NEW x \in rules' \ excused'
        PROVE  (\E ip \in Recorded : blocks[ip].stem = x.stem) \/ (ok /\ x.stem = s)
    <3>1. CASE x \in rules \ excused
      BY <1>6, <3>1 DEF FirewallInv, Accounted
    <3>2. CASE x = r /\ ok
      BY <1>8, <3>2
    <3>3. QED
      BY <1>8, <2>1, <3>1, <3>2
  <2>2. QED
    BY <1>2, <1>5, <1>6, <1>7, <2>1 DEF Accounted
<1>14. ClosesAlone'
  BY <1>2, <1>3, MoveIsTyped, TypesOfThreads, FreeIsNobody, <1>7 DEF FirewallInv, ClosesAlone
<1>15. QED
  BY <1>4, <1>9, <1>10, <1>11, <1>12, <1>13, <1>14 DEF FirewallInv

(* The outbound rule: a block is recorded when one of the two was added.   *)
LEMMA AddOutPreserves ==
  ASSUME FirewallInv, NEW t \in Callers, AddOut(t)
  PROVE  FirewallInv'
<1> DEFINE s == job[t].stem
<1> DEFINE r == Rule(s, "out")
<1> DEFINE at == job[t].ip
<1>1. PICK ok \in BOOLEAN :
        /\ AddRule(r, ok)
        /\ IF ok \/ job[t].ok THEN Record(t) ELSE UNCHANGED blocks
  BY DEF AddOut
<1>2. /\ t \in Threads /\ t # Loop /\ t # Owner /\ pc[t] = "add_out" /\ mutex = t
      /\ job[t] \in Jobs /\ job[t].ok \in BOOLEAN /\ at \in Ips
      /\ s \in Stems /\ s = stems /\ blocks[at] = NoBlock
      /\ UNCHANGED <<due, running, stems>>
  BY FreeIsNobody, ThreadsDiffer DEF FirewallInv, FirewallTypeOK, StemsDiffer, AddOut, Adding, Working, Jobs
<1>3. Moves(t, "idle", NoJob)
  BY <1>2, FreeIsNobody DEF Moves, AddOut, Release, Does, Goto, PCsOf, Adding, Deleting, Holding
<1>4. ThreadsTyped' /\ Shaped'
  BY <1>2, <1>3, TypesOfThreads, MoveIsTyped DEF FirewallInv
<1>5. /\ \A u \in Threads \ {t} : pc[u] \notin Holding /\ pc'[u] \notin Holding
      /\ pc'[t] = "idle"
      /\ \A jp : ~BeingDeleted(jp) /\ ~BeingDeleted(jp)'
      /\ \A x : (BeingAdded(x) <=> x = s) /\ ~BeingAdded(x)'
  <2>1. /\ "add_out" \in Holding /\ "add_out" \in Adding
        /\ "add_out" \notin Deleting /\ "idle" \notin Adding \cup Deleting
    BY DEF Holding, Deleting, Adding
  <2>2. QED
    BY <1>2, <1>3, <2>1, TypesOfThreads, MoveIsTyped, HolderIsAlone DEF FirewallInv
<1>6. \A u \in Threads : pc'[u] \notin Adding \cup Deleting /\ pc'[u] \notin {"add_out", "delete_out"}
  BY <1>5 DEF Holding, Adding, Deleting
<1>7. /\ r \in Rules /\ r.stem = s
      /\ rules' = (IF ok THEN rules \cup {r} ELSE rules)
      /\ excused \subseteq excused' /\ excused' \subseteq excused \cup {r}
      /\ \A o \in overdue' : o \in overdue \/ (o = [op |-> "add", rule |-> r] /\ r \in excused')
  BY <1>1, <1>2, AddRuleEffect DEF Rules, Rule
<1>8. /\ blocks' \in [Ips -> Blocks \cup {NoBlock}]
      /\ Recorded' = Recorded \cup (IF ok \/ job[t].ok THEN {at} ELSE {})
      /\ at \notin Recorded
      /\ \A ip \in Recorded : blocks'[ip] = blocks[ip]
      /\ ok \/ job[t].ok => blocks'[at].stem = s
  <2>1. [stem |-> s, expired |-> FALSE] \in Blocks /\ NoBlock # [stem |-> s, expired |-> FALSE]
    <3>1. s \in Nat
      BY <1>2 DEF Stems
    <3>2. [stem |-> s, expired |-> FALSE] \in [stem : Nat, expired : BOOLEAN]
      BY <3>1
    <3>3. QED
      BY <1>2, <3>2, NoBlockIsNone DEF Blocks
  <2>2. CASE ok \/ job[t].ok
    <3>1. blocks' = [blocks EXCEPT ![at] = [stem |-> s, expired |-> FALSE]]
      BY <1>1, <2>2 DEF Record
    <3>2. QED
      BY <1>2, <2>1, <2>2, <3>1 DEF Recorded, FirewallInv, FirewallTypeOK
  <2>3. CASE ~(ok \/ job[t].ok)
    BY <1>1, <1>2, <2>3 DEF Recorded, FirewallInv, FirewallTypeOK
  <2>4. QED
    BY <2>2, <2>3
<1> HIDE DEF s, r, at
<1>9. FirewallTypeOK'
  <2>1. rules' \subseteq Rules /\ excused' \subseteq Rules
    BY <1>7 DEF FirewallInv, FirewallTypeOK
  <2>2. overdue' \subseteq [op : {"add", "delete"}, rule : Rules]
    BY <1>7 DEF FirewallInv, FirewallTypeOK
  <2>3. QED
    BY <1>2, <1>4, <1>8, <2>1, <2>2 DEF FirewallInv, FirewallTypeOK, ThreadsTyped, Holding
<1>10. \A ip \in Recorded : blocks[ip].stem \in Nat /\ blocks[ip].stem <= stems /\ blocks[ip].stem # s
  BY <1>5 DEF FirewallInv, FirewallTypeOK, Recorded, Blocks, Stems, StemsDiffer
<1>11. StemsDiffer'
  <2>1. \A ip \in Recorded' : blocks'[ip].stem <= stems
    BY <1>2, <1>8, <1>10, BlocksBounded DEF Stems
  <2>2. \A ip, jp \in Recorded' : blocks'[ip].stem = blocks'[jp].stem => ip = jp
    BY <1>8, <1>10 DEF FirewallInv, StemsDiffer
  <2>3. QED
    BY <1>2, <1>6, <2>1, <2>2 DEF StemsDiffer, BeingAdded
<1>12. OverdueIsHarmless'
  <2>1. ASSUME NEW o \in overdue' PROVE o.rule \in excused' /\ o.rule.stem <= stems
    <3>1. CASE o \in overdue
      BY <1>7, <3>1 DEF FirewallInv, OverdueIsHarmless
    <3>2. CASE o = [op |-> "add", rule |-> r] /\ r \in excused'
      BY <1>2, <1>7, <3>2, BlocksBounded DEF Stems
    <3>3. QED
      BY <1>7, <3>1, <3>2
  <2>2. ASSUME NEW o \in overdue', o.op = "delete"
        PROVE  \A ip \in Recorded' : blocks'[ip].stem # o.rule.stem
    <3>1. o \in overdue
      BY <1>7, <2>2
    <3>2. o.rule.stem # s /\ \A ip \in Recorded : blocks[ip].stem # o.rule.stem
      BY <1>5, <2>2, <3>1 DEF FirewallInv, OverdueIsHarmless
    <3>3. QED
      BY <1>8, <3>2
  <2>3. QED
    BY <1>2, <1>5, <2>1, <2>2 DEF OverdueIsHarmless
<1>13. Enforced'
  <2>1. rules \subseteq rules' /\ (ok => r \in rules')
    BY <1>7
  <2>2. \A ip \in Recorded : \E x \in rules : x.stem = blocks[ip].stem
    BY <1>5 DEF FirewallInv, Enforced
  <2>3. job[t].ok => \E x \in rules : x.stem = s
    <3>1. job[t].ok => Rule(s, "in") \in rules
      BY <1>2 DEF FirewallInv, Enforced, s
    <3>2. Rule(s, "in").stem = s
      BY DEF Rule
    <3>3. QED
      BY <3>1, <3>2
  <2>4. \A ip \in Recorded' : \E x \in rules' : x.stem = blocks'[ip].stem
    BY <1>7, <1>8, <2>1, <2>2, <2>3
  <2>5. QED
    BY <1>6, <2>4 DEF Enforced
<1>14. Accounted'
  <2>1. ASSUME NEW x \in rules' \ excused'
        PROVE  \E ip \in Recorded' : blocks'[ip].stem = x.stem
    <3>1. CASE x \in rules \ excused
      <4>1. (\E ip \in Recorded : blocks[ip].stem = x.stem) \/ (job[t].ok /\ s = x.stem)
        <5>1. \A u \in Threads : pc[u] = "add_out" => u = t
          BY <1>5 DEF Holding, Adding
        <5>2. QED
          BY <3>1, <5>1 DEF FirewallInv, Accounted, s
      <4>2. QED
        BY <1>8, <4>1
    <3>2. CASE x = r /\ ok
      BY <1>7, <1>8, <3>2
    <3>3. QED
      BY <1>7, <2>1, <3>1, <3>2
  <2>2. QED
    BY <1>6, <2>1 DEF Accounted
<1>15. ClosesAlone'
  <2>1. pc[Owner] # "done"
    BY <1>2 DEF FirewallInv, ClosesAlone
  <2>2. QED
    BY <1>2, <1>3, <2>1, MoveIsTyped, TypesOfThreads, FreeIsNobody DEF FirewallInv, ClosesAlone
<1>16. QED
  BY <1>4, <1>9, <1>11, <1>12, <1>13, <1>14, <1>15 DEF FirewallInv

-----------------------------------------------------------------------------
(* do_unblock_locked *)
LEMMA DeleteInPreserves ==
  ASSUME FirewallInv, NEW t \in Threads, DeleteIn(t)
  PROVE  FirewallInv'
<1> DEFINE s == job[t].stem
<1> DEFINE r == Rule(s, "in")
<1> DEFINE at == job[t].ip
<1>1. /\ pc[t] = "delete_in" /\ mutex = t /\ DeleteRule(r)
      /\ job[t] \in Jobs /\ s \in Stems
      /\ at \in Recorded /\ blocks[at].stem = s
      /\ UNCHANGED <<blocks, mutex, job, due, running, stems>>
  BY DEF FirewallInv, FirewallTypeOK, StemsDiffer, DeleteIn, Adding, Deleting, Working, Jobs
<1>2. Moves(t, "delete_out", job[t])
  <2>1. job' = [job EXCEPT ![t] = job[t]]
    BY <1>1 DEF FirewallInv, Shaped
  <2>2. QED
    BY <1>1, <2>1, FreeIsNobody DEF Moves, DeleteIn, Goto, PCsOf, Adding, Deleting, Holding
<1>3. ThreadsTyped' /\ Shaped'
  BY <1>2, TypesOfThreads, MoveIsTyped DEF FirewallInv
<1>4. /\ \A u \in Threads \ {t} : pc[u] \notin Holding /\ pc'[u] \notin Holding
      /\ pc'[t] = "delete_out"
      /\ \A ip : (BeingDeleted(ip) <=> ip = at) /\ (BeingDeleted(ip)' <=> ip = at)
      /\ \A x : ~BeingAdded(x) /\ ~BeingAdded(x)'
  <2>1. /\ {"delete_in", "delete_out"} \subseteq Holding /\ {"delete_in", "delete_out"} \subseteq Deleting
        /\ {"delete_in", "delete_out"} \cap Adding = {}
    BY DEF Holding, Deleting, Adding
  <2>2. QED
    BY <1>1, <1>2, <2>1, TypesOfThreads, MoveIsTyped, HolderIsAlone DEF FirewallInv
<1>5. /\ \A u \in Threads : pc'[u] \notin Adding /\ pc[u] \notin Adding
      /\ \A u \in Threads : pc'[u] \in Deleting => u = t
      /\ \A u \in Threads : pc'[u] # "add_out" /\ pc[u] # "add_out"
  BY <1>1, <1>4 DEF Holding, Adding, Deleting
<1>6. Recorded' = Recorded
  BY <1>1 DEF Recorded
<1>7. /\ r \in Rules /\ r.stem = s
      /\ rules' \subseteq rules /\ rules \ {r} \subseteq rules'
      /\ r \notin rules' \ excused'
      /\ excused \subseteq excused' /\ excused' \subseteq excused \cup {r}
      /\ \A o \in overdue' : o \in overdue \/ (o = [op |-> "delete", rule |-> r] /\ r \in excused')
  BY <1>1, DeleteRuleEffect DEF Rules, Rule
<1>8. s <= stems /\ \A ip \in Recorded : blocks[ip].stem = s => ip = at
  BY <1>1 DEF FirewallInv, StemsDiffer
<1>9. r = Rule(job'[t].stem, "in")
  BY <1>1
<1> HIDE DEF s, r, at
<1>10. FirewallTypeOK'
  <2>1. rules' \subseteq Rules /\ excused' \subseteq Rules
    BY <1>7 DEF FirewallInv, FirewallTypeOK
  <2>2. overdue' \subseteq [op : {"add", "delete"}, rule : Rules]
    BY <1>7 DEF FirewallInv, FirewallTypeOK
  <2>3. QED
    BY <1>1, <1>3, <2>1, <2>2 DEF FirewallInv, FirewallTypeOK, ThreadsTyped, Holding
<1>11. StemsDiffer'
  BY <1>1, <1>4, <1>5, <1>6 DEF FirewallInv, StemsDiffer, s, at
<1>12. OverdueIsHarmless'
  <2>1. ASSUME NEW o \in overdue'
        PROVE  /\ o.rule \in excused' /\ o.rule.stem <= stems
               /\ o.op = "delete" => \A ip \in Recorded : blocks[ip].stem = o.rule.stem => ip = at
    <3>1. CASE o \in overdue
      BY <1>4, <1>7, <3>1 DEF FirewallInv, OverdueIsHarmless
    <3>2. CASE o = [op |-> "delete", rule |-> r] /\ r \in excused'
      BY <1>7, <1>8, <3>2
    <3>3. QED
      BY <1>7, <3>1, <3>2
  <2>2. QED
    BY <1>1, <1>4, <1>6, <2>1 DEF OverdueIsHarmless
<1>13. Enforced'
  <2>1. ASSUME NEW ip \in Recorded, ip # at
        PROVE  \E x \in rules' : x.stem = blocks[ip].stem
    <3>1. PICK x \in rules : x.stem = blocks[ip].stem
      BY <1>4, <2>1 DEF FirewallInv, Enforced
    <3>2. x # r
      BY <1>7, <1>8, <2>1, <3>1
    <3>3. QED
      BY <1>7, <3>1, <3>2
  <2>2. QED
    BY <1>1, <1>4, <1>5, <1>6, <2>1 DEF Enforced
<1>14. Accounted'
  <2>1. ASSUME NEW x \in rules' \ excused'
        PROVE  \E ip \in Recorded : blocks[ip].stem = x.stem
    <3>1. x \in rules \ excused
      BY <1>7, <2>1
    <3>2. QED
      BY <1>5, <3>1 DEF FirewallInv, Accounted
  <2>2. \A u \in Threads : pc'[u] = "delete_out" => u = t
    BY <1>5 DEF Deleting
  <2>3. QED
    BY <1>1, <1>6, <1>7, <1>9, <2>1, <2>2 DEF Accounted
<1>15. ClosesAlone'
  BY <1>1, <1>2, <1>6, MoveIsTyped, TypesOfThreads, FreeIsNobody DEF FirewallInv, ClosesAlone, Deleting
<1>16. QED
  BY <1>3, <1>10, <1>11, <1>12, <1>13, <1>14, <1>15 DEF FirewallInv

(* The second deletion of a removal, after which the record goes.          *)
LEMMA DeleteOutPreserves ==
  ASSUME FirewallInv, NEW t \in Threads, DeleteOut(t)
  PROVE  FirewallInv'
<1> DEFINE s == job[t].stem
<1> DEFINE r == Rule(s, "out")
<1> DEFINE at == job[t].ip
<1>1. /\ pc[t] = "delete_out" /\ mutex = t /\ DeleteRule(r)
      /\ job[t] \in Jobs /\ s \in Stems /\ at \in Ips
      /\ at \in Recorded /\ blocks[at].stem = s
      /\ blocks' = [blocks EXCEPT ![at] = NoBlock]
      /\ UNCHANGED <<due, running, stems>>
  BY DEF FirewallInv, FirewallTypeOK, StemsDiffer, DeleteOut, Adding, Deleting, Working, Jobs
<1>2. PICK where \in {"idle", "scan", "close"} :
        /\ Moves(t, where, NoJob)
        /\ t = Owner => where = "close"
        /\ t = Loop => where = "scan"
        /\ t \notin {Loop, Owner} => where = "idle"
  <2>1. CASE t \in Callers /\ Release(t)
    BY <1>1, <2>1, FreeIsNobody, ThreadsDiffer
       DEF Moves, Release, Does, Goto, PCsOf, Adding, Deleting, Holding
  <2>2. CASE t = Loop /\ Goto(t, "scan") /\ Does(t, NoJob) /\ UNCHANGED mutex
    BY <1>1, <2>2, FreeIsNobody, ThreadsDiffer DEF Moves, Does, Goto, PCsOf, Adding, Deleting, Holding
  <2>3. CASE t = Owner /\ Goto(t, "close") /\ Does(t, NoJob) /\ UNCHANGED mutex
    BY <1>1, <2>3, FreeIsNobody, ThreadsDiffer DEF Moves, Does, Goto, PCsOf, Adding, Deleting, Holding
  <2>4. QED
    BY <2>1, <2>2, <2>3 DEF DeleteOut
<1>3. ThreadsTyped' /\ Shaped'
  BY <1>2, TypesOfThreads, MoveIsTyped DEF FirewallInv
<1>4. /\ \A u \in Threads \ {t} : pc[u] \notin Holding /\ pc'[u] \notin Holding
      /\ pc'[t] = where
      /\ \A ip : (BeingDeleted(ip) <=> ip = at) /\ ~BeingDeleted(ip)'
      /\ \A x : ~BeingAdded(x) /\ ~BeingAdded(x)'
  <2>1. /\ "delete_out" \in Holding /\ "delete_out" \in Deleting /\ "delete_out" \notin Adding
        /\ where \notin Adding \cup Deleting
    BY DEF Holding, Deleting, Adding
  <2>2. QED
    BY <1>1, <1>2, <2>1, TypesOfThreads, MoveIsTyped, HolderIsAlone DEF FirewallInv
<1>5. /\ \A u \in Threads : pc'[u] \notin Adding \cup Deleting /\ pc'[u] \notin {"add_out", "delete_out"}
      /\ \A u \in Threads : pc[u] # "add_out"
  BY <1>1, <1>4 DEF Holding, Adding, Deleting
<1>6. /\ Recorded' = Recorded \ {at} /\ \A ip \in Recorded' : blocks'[ip] = blocks[ip]
      /\ blocks' \in [Ips -> Blocks \cup {NoBlock}]
  BY <1>1 DEF Recorded, FirewallInv, FirewallTypeOK
<1>7. /\ r \in Rules /\ r.stem = s
      /\ rules' \subseteq rules /\ rules \ {r} \subseteq rules'
      /\ r \notin rules' \ excused'
      /\ excused \subseteq excused' /\ excused' \subseteq excused \cup {r}
      /\ \A o \in overdue' : o \in overdue \/ (o = [op |-> "delete", rule |-> r] /\ r \in excused')
  BY <1>1, DeleteRuleEffect DEF Rules, Rule
<1>8. s <= stems /\ \A ip \in Recorded : blocks[ip].stem = s => ip = at
  BY <1>1 DEF FirewallInv, StemsDiffer
<1>9. \A x \in rules' \ excused' : x \in rules \ excused /\ x.stem # s
  <2>1. Rule(s, "in") \notin rules \ excused
    BY <1>1 DEF FirewallInv, Accounted
  <2>2. ASSUME NEW x \in rules' \ excused', x.stem = s PROVE FALSE
    <3>1. x \in Rules /\ x \in rules \ excused
      BY <1>7, <2>2 DEF FirewallInv, FirewallTypeOK
    <3>2. x = Rule(s, "in") \/ x = Rule(s, "out")
      BY <2>2, <3>1 DEF Rules, Rule
    <3>3. QED
      BY <1>7, <2>1, <2>2, <3>1, <3>2
  <2>3. QED
    BY <1>7, <2>2
<1> HIDE DEF s, r, at
<1>10. FirewallTypeOK'
  <2>1. rules' \subseteq Rules /\ excused' \subseteq Rules
    BY <1>7 DEF FirewallInv, FirewallTypeOK
  <2>2. overdue' \subseteq [op : {"add", "delete"}, rule : Rules]
    BY <1>7 DEF FirewallInv, FirewallTypeOK
  <2>3. QED
    BY <1>1, <1>3, <1>6, <2>1, <2>2 DEF FirewallInv, FirewallTypeOK, ThreadsTyped, Holding
<1>11. StemsDiffer'
  BY <1>1, <1>5, <1>6 DEF FirewallInv, StemsDiffer, BeingAdded
<1>12. OverdueIsHarmless'
  <2>1. ASSUME NEW o \in overdue'
        PROVE  /\ o.rule \in excused' /\ o.rule.stem <= stems
               /\ o.op = "delete" => \A ip \in Recorded' : blocks[ip].stem # o.rule.stem
    <3>1. CASE o \in overdue
      BY <1>4, <1>6, <1>7, <3>1 DEF FirewallInv, OverdueIsHarmless
    <3>2. CASE o = [op |-> "delete", rule |-> r] /\ r \in excused'
      BY <1>6, <1>7, <1>8, <3>2
    <3>3. QED
      BY <1>7, <3>1, <3>2
  <2>2. QED
    BY <1>1, <1>4, <1>6, <2>1 DEF OverdueIsHarmless
<1>13. Enforced'
  <2>1. ASSUME NEW ip \in Recorded'
        PROVE  \E x \in rules' : x.stem = blocks'[ip].stem
    <3>1. PICK x \in rules : x.stem = blocks[ip].stem
      BY <1>4, <1>6, <2>1 DEF FirewallInv, Enforced
    <3>2. x # r
      BY <1>6, <1>7, <1>8, <2>1, <3>1
    <3>3. QED
      BY <1>6, <1>7, <2>1, <3>1, <3>2
  <2>2. QED
    BY <1>5, <2>1 DEF Enforced
<1>14. Accounted'
  <2>1. ASSUME NEW x \in rules' \ excused'
        PROVE  \E ip \in Recorded' : blocks'[ip].stem = x.stem
    <3>1. PICK ip \in Recorded : blocks[ip].stem = x.stem
      BY <1>5, <1>9, <2>1 DEF FirewallInv, Accounted
    <3>2. ip # at
      BY <1>1, <1>9, <2>1, <3>1 DEF s, at
    <3>3. QED
      BY <1>6, <3>1, <3>2
  <2>2. QED
    BY <1>5, <2>1 DEF Accounted
<1>15. ClosesAlone'
  <2>1. /\ \A u \in Threads \ {t} : pc'[u] = pc[u]
        /\ pc[t] \notin {"idle", "done"}
    BY <1>1, <1>2, TypesOfThreads, MoveIsTyped DEF FirewallInv
  <2>2. pc[Owner] # "done"
    BY <1>1 DEF FirewallInv, ClosesAlone
  <2>3. "delete_out" \in Deleting
    BY DEF Deleting
  <2>4. QED
    BY <1>1, <1>2, <1>4, <2>1, <2>2, <2>3, FreeIsNobody, ThreadsDiffer DEF FirewallInv, ClosesAlone
<1>16. QED
  BY <1>3, <1>10, <1>11, <1>12, <1>13, <1>14, <1>15 DEF FirewallInv

(* unblock(): an address with a record begins its removal.                 *)
LEMMA UnblockBeginsPreserves ==
  ASSUME FirewallInv, NEW t \in Callers, NEW ip \in Ips, UnblockBegins(t, ip)
  PROVE  FirewallInv'
<1> DEFINE j == [ip |-> ip, stem |-> blocks[ip].stem, ok |-> FALSE]
<1>1. /\ t \in Threads /\ t # Loop /\ t # Owner /\ ip \in Recorded
      /\ mutex = Free /\ pc[t] = "idle" /\ running
      /\ blocks[ip].stem \in Stems
      /\ UNCHANGED <<hostVars, blocks, due, running, stems>>
  BY FreeIsNobody, ThreadsDiffer DEF FirewallInv, FirewallTypeOK, UnblockBegins, Recorded, Blocks
<1>2. Moves(t, "delete_in", j)
  BY <1>1 DEF Moves, UnblockBegins, Removes, Does, Goto, PCsOf, Adding, Deleting, Holding, Jobs
<1>3. pc[t] \notin Adding \cup Deleting
  BY <1>1 DEF Adding, Deleting
<1>4. FirewallTypeOK' /\ Shaped' /\ StemsDiffer' /\ OverdueIsHarmless' /\ Enforced' /\ Accounted'
  BY <1>1, <1>2, <1>3, RemovalBegins
<1>5. ClosesAlone'
  BY <1>1, <1>2, MoveIsTyped, TypesOfThreads, FreeIsNobody DEF FirewallInv, ClosesAlone, Recorded
<1>6. QED
  BY <1>4, <1>5 DEF FirewallInv

(* Time passes: nothing but the mark of a record changes. *)
LEMMA ExpiresPreserves ==
  ASSUME FirewallInv, NEW ip \in Ips, Expires(ip)
  PROVE  FirewallInv'
<1>1. /\ ip \in Recorded /\ blocks[ip] \in Blocks
      /\ blocks' = [blocks EXCEPT ![ip].expired = TRUE]
      /\ UNCHANGED <<rules, overdue, excused, mutex, pc, job, due, running, stems>>
  BY DEF Expires, hostVars, FirewallInv, FirewallTypeOK, Recorded
<1>2. /\ blocks' \in [Ips -> Blocks \cup {NoBlock}]
      /\ \A jp \in Ips \ {ip} : blocks'[jp] = blocks[jp]
      /\ blocks'[ip] \in Blocks /\ blocks'[ip].stem = blocks[ip].stem
  BY <1>1 DEF FirewallInv, FirewallTypeOK, Blocks
<1>3. NoBlock \notin Blocks
  BY NoBlockIsNone DEF Blocks, Stems
<1>4. /\ Recorded' = Recorded
      /\ \A jp \in Recorded : blocks'[jp].stem = blocks[jp].stem
      /\ \A jp \in Ips : blocks'[jp] = NoBlock <=> blocks[jp] = NoBlock
  BY <1>1, <1>2, <1>3 DEF Recorded
<1>5. /\ \A jp : BeingDeleted(jp)' <=> BeingDeleted(jp)
      /\ \A s : BeingAdded(s)' <=> BeingAdded(s)
  BY <1>1 DEF BeingDeleted, BeingAdded
<1>6. \A t \in Threads : pc[t] \in Adding => job[t].ip \in Ips
  BY DEF FirewallInv, FirewallTypeOK, Jobs
<1>7. FirewallTypeOK' /\ Shaped' /\ ClosesAlone'
  BY <1>1, <1>2, <1>4 DEF FirewallInv, FirewallTypeOK, Shaped, ClosesAlone
<1>8. StemsDiffer'
  <2>1. \A jp \in Recorded : blocks'[jp].stem <= stems /\ \A t \in Threads : ~(pc[t] \in Adding /\ job[t].stem = blocks'[jp].stem)
    BY <1>4 DEF FirewallInv, StemsDiffer, BeingAdded
  <2>2. QED
    BY <1>1, <1>4, <1>6, <2>1 DEF FirewallInv, StemsDiffer, BeingAdded
<1>9. OverdueIsHarmless'
  BY <1>1, <1>4, <1>5 DEF FirewallInv, OverdueIsHarmless
<1>10. Enforced' /\ Accounted'
  BY <1>1, <1>4, <1>5 DEF FirewallInv, Enforced, Accounted
<1>11. QED
  BY <1>7, <1>8, <1>9, <1>10 DEF FirewallInv

(* expiry_loop and the destructor *)
LEMMA LoopPreserves ==
  ASSUME FirewallInv, LoopReadsClock \/ LoopLocks \/ LoopRemoves \/ LoopSleeps
  PROVE  FirewallInv'
<1>1. /\ Loop \in Threads /\ Owner \in Threads /\ Loop # Owner /\ Loop \notin Callers
      /\ job = [job EXCEPT ![Loop] = job[Loop]]
      /\ mutex = Loop <=> pc[Loop] \in Holding
      /\ pc[Loop] \in {"head", "lock", "scan"} => job[Loop] = NoJob
  BY FreeIsNobody, ThreadsDiffer DEF FirewallInv, FirewallTypeOK, Shaped, Holding, Adding, Deleting
<1>2. \A ip \in Recorded : blocks[ip].stem \in Stems /\ ip \in Ips
  BY DEF FirewallInv, FirewallTypeOK, Recorded, Blocks
<1>3. /\ "head" \notin Holding /\ "lock" \notin Holding /\ "done" \notin Holding /\ "scan" \in Holding
      /\ "delete_in" \in Holding
      /\ \A x \in {"head", "lock", "scan", "done"} : x \in PCsOf(Loop) /\ x \notin Adding \cup Deleting
      /\ "delete_in" \in PCsOf(Loop) /\ "delete_in" \in Deleting
  BY DEF Holding, Adding, Deleting, PCsOf
<1>4. CASE LoopReadsClock
  <2>1. PICK where \in {"lock", "done"} : pc' = [pc EXCEPT ![Loop] = where]
    BY <1>4 DEF LoopReadsClock, Goto
  <2>2. /\ pc[Loop] = "head" /\ due' \subseteq Stems /\ running' = running
        /\ UNCHANGED <<hostVars, blocks, mutex, job, stems>>
    BY <1>2, <1>4 DEF LoopReadsClock, Working, ExpiredStems, FirewallInv, FirewallTypeOK
  <2>3. Moves(Loop, where, job[Loop])
    BY <1>1, <1>3, <2>1, <2>2 DEF Moves
  <2>4. FirewallTypeOK' /\ Shaped' /\ StemsDiffer' /\ OverdueIsHarmless' /\ Enforced' /\ Accounted'
    BY <1>1, <1>3, <2>2, <2>3, QuietMoves DEF FirewallInv, FirewallTypeOK
  <2>5. ClosesAlone'
    BY <1>1, <2>2, <2>3, MoveIsTyped, TypesOfThreads, FreeIsNobody DEF FirewallInv, ClosesAlone, Recorded
  <2>6. QED
    BY <2>4, <2>5 DEF FirewallInv
<1>5. CASE LoopLocks
  <2>1. /\ pc[Loop] = "lock" /\ mutex = Free /\ mutex' = Loop /\ pc' = [pc EXCEPT ![Loop] = "scan"]
        /\ UNCHANGED <<hostVars, blocks, due, running, job, stems>>
    BY <1>5 DEF LoopLocks, Working, Goto
  <2>2. Moves(Loop, "scan", job[Loop])
    BY <1>1, <1>3, <2>1 DEF Moves
  <2>3. FirewallTypeOK' /\ Shaped' /\ StemsDiffer' /\ OverdueIsHarmless' /\ Enforced' /\ Accounted'
    BY <1>1, <1>3, <2>1, <2>2, QuietMoves DEF FirewallInv, FirewallTypeOK
  <2>4. ClosesAlone'
    BY <1>1, <2>1, <2>2, MoveIsTyped, TypesOfThreads, FreeIsNobody DEF FirewallInv, ClosesAlone, Recorded
  <2>5. QED
    BY <2>3, <2>4 DEF FirewallInv
<1>6. CASE LoopRemoves
  <2>1. PICK ip \in Recorded : Removes(Loop, ip)
    BY <1>6 DEF LoopRemoves
  <2>2. pc[Loop] = "scan" /\ UNCHANGED <<hostVars, blocks, mutex, due, running, stems>>
    BY <1>6 DEF LoopRemoves, Working
  <2>3. Moves(Loop, "delete_in", [ip |-> ip, stem |-> blocks[ip].stem, ok |-> FALSE])
    BY <1>1, <1>2, <1>3, <2>1, <2>2 DEF Moves, Removes, Does, Goto, Jobs
  <2>4. FirewallTypeOK' /\ Shaped' /\ StemsDiffer' /\ OverdueIsHarmless' /\ Enforced' /\ Accounted'
    BY <1>1, <1>3, <2>2, <2>3, RemovalBegins
  <2>5. ClosesAlone'
    BY <1>1, <2>2, <2>3, MoveIsTyped, TypesOfThreads, FreeIsNobody DEF FirewallInv, ClosesAlone, Recorded
  <2>6. QED
    BY <2>4, <2>5 DEF FirewallInv
<1>7. CASE LoopSleeps
  <2>1. /\ pc[Loop] = "scan" /\ mutex' = Free /\ pc' = [pc EXCEPT ![Loop] = "head"] /\ due' = {}
        /\ UNCHANGED <<hostVars, blocks, running, job, stems>>
    BY <1>7 DEF LoopSleeps, Working, Goto
  <2>2. Moves(Loop, "head", job[Loop])
    BY <1>1, <1>3, <2>1 DEF Moves
  <2>3. FirewallTypeOK' /\ Shaped' /\ StemsDiffer' /\ OverdueIsHarmless' /\ Enforced' /\ Accounted'
    BY <1>1, <1>3, <2>1, <2>2, QuietMoves DEF FirewallInv, FirewallTypeOK
  <2>4. ClosesAlone'
    BY <1>1, <2>1, <2>2, MoveIsTyped, TypesOfThreads, FreeIsNobody DEF FirewallInv, ClosesAlone, Recorded
  <2>5. QED
    BY <2>3, <2>4 DEF FirewallInv
<1>8. QED
  BY <1>4, <1>5, <1>6, <1>7

(* The destructor: stop, join, remove what is recorded, end.               *)
LEMMA OwnerPreserves ==
  ASSUME FirewallInv, Stops \/ Joins \/ ClosesOne \/ Closed
  PROVE  FirewallInv'
<1>1. /\ Loop \in Threads /\ Owner \in Threads /\ Loop # Owner /\ Owner \notin Callers
      /\ job = [job EXCEPT ![Owner] = job[Owner]]
      /\ mutex = Owner <=> pc[Owner] \in Holding
      /\ pc[Owner] \in {"idle", "join", "close"} => job[Owner] = NoJob
  BY FreeIsNobody, ThreadsDiffer DEF FirewallInv, FirewallTypeOK, Shaped, Holding, Adding, Deleting
<1>2. \A ip \in Recorded : blocks[ip].stem \in Stems /\ ip \in Ips
  BY DEF FirewallInv, FirewallTypeOK, Recorded, Blocks
<1>3. /\ "idle" \notin Holding /\ "join" \notin Holding /\ "done" \notin Holding /\ "close" \in Holding
      /\ "delete_in" \in Holding
      /\ \A x \in {"idle", "join", "close", "done"} : x \in PCsOf(Owner) /\ x \notin Adding \cup Deleting
      /\ "delete_in" \in PCsOf(Owner) /\ "delete_in" \in Deleting
  BY <1>1 DEF Holding, Adding, Deleting, PCsOf
<1>4. CASE Stops
  <2>1. /\ pc[Owner] = "idle" /\ running' = FALSE /\ pc' = [pc EXCEPT ![Owner] = "join"]
        /\ \A t \in Callers : pc[t] = "idle"
        /\ UNCHANGED <<hostVars, blocks, mutex, job, due, stems>>
    BY <1>4 DEF Stops, Goto, FirewallInv, ClosesAlone
  <2>2. Moves(Owner, "join", job[Owner])
    BY <1>1, <1>3, <2>1 DEF Moves
  <2>3. FirewallTypeOK' /\ Shaped' /\ StemsDiffer' /\ OverdueIsHarmless' /\ Enforced' /\ Accounted'
    BY <1>1, <1>3, <2>1, <2>2, QuietMoves DEF FirewallInv, FirewallTypeOK
  <2>4. ClosesAlone'
    BY <1>1, <1>3, <2>1, <2>2, MoveIsTyped, TypesOfThreads, FreeIsNobody
       DEF FirewallInv, ClosesAlone, Recorded, Deleting
  <2>5. QED
    BY <2>3, <2>4 DEF FirewallInv
<1>5. CASE Joins
  <2>1. /\ pc[Owner] = "join" /\ pc[Loop] = "done" /\ mutex = Free /\ mutex' = Owner
        /\ pc' = [pc EXCEPT ![Owner] = "close"]
        /\ UNCHANGED <<hostVars, blocks, due, running, job, stems>>
    BY <1>5 DEF Joins, Working, Goto
  <2>2. Moves(Owner, "close", job[Owner])
    BY <1>1, <1>3, <2>1 DEF Moves
  <2>3. FirewallTypeOK' /\ Shaped' /\ StemsDiffer' /\ OverdueIsHarmless' /\ Enforced' /\ Accounted'
    BY <1>1, <1>3, <2>1, <2>2, QuietMoves DEF FirewallInv, FirewallTypeOK
  <2>4. ClosesAlone'
    BY <1>1, <2>1, <2>2, MoveIsTyped, TypesOfThreads, FreeIsNobody DEF FirewallInv, ClosesAlone, Recorded
  <2>5. QED
    BY <2>3, <2>4 DEF FirewallInv
<1>6. CASE ClosesOne
  <2>1. PICK ip \in Recorded : Removes(Owner, ip)
    BY <1>6 DEF ClosesOne
  <2>2. pc[Owner] = "close" /\ UNCHANGED <<hostVars, blocks, mutex, due, running, stems>>
    BY <1>6 DEF ClosesOne, Working
  <2>3. Moves(Owner, "delete_in", [ip |-> ip, stem |-> blocks[ip].stem, ok |-> FALSE])
    BY <1>1, <1>2, <1>3, <2>1, <2>2 DEF Moves, Removes, Does, Goto, Jobs
  <2>4. FirewallTypeOK' /\ Shaped' /\ StemsDiffer' /\ OverdueIsHarmless' /\ Enforced' /\ Accounted'
    BY <1>1, <1>3, <2>2, <2>3, RemovalBegins
  <2>5. ClosesAlone'
    BY <1>1, <2>2, <2>3, MoveIsTyped, TypesOfThreads, FreeIsNobody DEF FirewallInv, ClosesAlone, Recorded
  <2>6. QED
    BY <2>4, <2>5 DEF FirewallInv
<1>7. CASE Closed
  <2>1. /\ pc[Owner] = "close" /\ Recorded = {} /\ mutex' = Free /\ pc' = [pc EXCEPT ![Owner] = "done"]
        /\ UNCHANGED <<hostVars, blocks, due, running, job, stems>>
    BY <1>7 DEF Closed, Working, Goto
  <2>2. Moves(Owner, "done", job[Owner])
    BY <1>1, <1>3, <2>1 DEF Moves
  <2>3. FirewallTypeOK' /\ Shaped' /\ StemsDiffer' /\ OverdueIsHarmless' /\ Enforced' /\ Accounted'
    BY <1>1, <1>3, <2>1, <2>2, QuietMoves DEF FirewallInv, FirewallTypeOK
  <2>4. ClosesAlone'
    BY <1>1, <2>1, <2>2, MoveIsTyped, TypesOfThreads, FreeIsNobody DEF FirewallInv, ClosesAlone, Recorded
  <2>5. QED
    BY <2>3, <2>4 DEF FirewallInv
<1>8. QED
  BY <1>4, <1>5, <1>6, <1>7

-----------------------------------------------------------------------------
(* A late netsh deletes no rule that a record or a call relies on, and     *)
(* adds only rules that are excused.                                       *)
LEMMA OverduePreserves ==
  ASSUME FirewallInv, OverdueEnds
  PROVE  FirewallInv'
<1>1. PICK o \in overdue :
        /\ overdue' = overdue \ {o}
        /\ rules' \in {rules, IF o.op = "add" THEN rules \cup {o.rule} ELSE rules \ {o.rule}}
  BY DEF OverdueEnds
<1>2. UNCHANGED <<blocks, mutex, pc, job, due, running, stems, excused>>
  BY DEF OverdueEnds
<1>3. /\ o.op \in {"add", "delete"} /\ o.rule \in Rules /\ o.rule \in excused
  BY DEF FirewallInv, FirewallTypeOK, OverdueIsHarmless
<1>4. /\ rules' \subseteq rules \cup {o.rule}
      /\ rules \ {o.rule} \subseteq rules'
      /\ o.op = "add" => rules \subseteq rules'
  BY <1>1
<1>5. /\ Recorded' = Recorded
      /\ \A ip : BeingDeleted(ip)' <=> BeingDeleted(ip)
      /\ \A s : BeingAdded(s)' <=> BeingAdded(s)
  BY <1>2 DEF Recorded, BeingDeleted, BeingAdded
<1>6. FirewallTypeOK' /\ Shaped' /\ ClosesAlone'
  BY <1>1, <1>2, <1>3, <1>4, <1>5 DEF FirewallInv, FirewallTypeOK, Shaped, ClosesAlone
<1>7. StemsDiffer'
  BY <1>2, <1>5 DEF FirewallInv, StemsDiffer, BeingAdded
<1>8. OverdueIsHarmless'
  BY <1>1, <1>2, <1>5 DEF FirewallInv, OverdueIsHarmless
<1>9. Enforced'
  <2>1. ASSUME NEW x \in rules, x \notin rules' PROVE o.op = "delete" /\ x = o.rule
    BY <1>3, <1>4, <2>1
  <2>2. ASSUME NEW ip \in Recorded, ~BeingDeleted(ip)
        PROVE  \E x \in rules' : x.stem = blocks[ip].stem
    <3>1. PICK x \in rules : x.stem = blocks[ip].stem
      BY <2>2 DEF FirewallInv, Enforced
    <3>2. CASE x \notin rules'
      BY <2>1, <2>2, <3>1, <3>2 DEF FirewallInv, OverdueIsHarmless
    <3>3. QED
      BY <3>1, <3>2
  <2>3. ASSUME NEW t \in Threads, pc[t] = "add_out", job[t].ok
        PROVE  Rule(job[t].stem, "in") \in rules'
    <3>1. Rule(job[t].stem, "in") \in rules /\ BeingAdded(job[t].stem)
      BY <2>3 DEF FirewallInv, Enforced, BeingAdded, Adding
    <3>2. Rule(job[t].stem, "in").stem = job[t].stem
      BY DEF Rule
    <3>3. CASE Rule(job[t].stem, "in") \notin rules'
      BY <2>1, <3>1, <3>2, <3>3 DEF FirewallInv, OverdueIsHarmless
    <3>4. QED
      BY <3>3
  <2>4. QED
    BY <1>2, <1>5, <2>2, <2>3 DEF Enforced
<1>10. Accounted'
  <2>1. rules' \ excused' \subseteq rules \ excused
    BY <1>2, <1>3, <1>4
  <2>2. QED
    BY <1>2, <1>5, <2>1 DEF FirewallInv, Accounted
<1>11. QED
  BY <1>6, <1>7, <1>8, <1>9, <1>10 DEF FirewallInv

(* A process that went through its destructor leaves only excused rules.   *)
LEMMA RestartsPreserves ==
  ASSUME FirewallInv, Restarts
  PROVE  FirewallInv'
<1>1. /\ \A t \in Threads : pc'[t] \in {"idle", "head"} /\ job'[t] = NoJob /\ mutex' # t
      /\ pc'[Owner] = "idle" /\ pc'[Loop] = "head"
      /\ \A t \in Callers : pc'[t] = "idle"
      /\ \A t \in Threads : pc'[t] = "head" <=> t = Loop
      /\ running' = TRUE /\ due' = {} /\ UNCHANGED <<rules, overdue, stems>>
  BY FreeIsNobody, ThreadsDiffer DEF Restarts
<1>2. \A t \in Threads : pc'[t] \notin Holding /\ pc'[t] \notin Adding \cup Deleting /\ pc'[t] \in PCsOf(t)
  BY <1>1 DEF Holding, Adding, Deleting, PCsOf
<1>3. Recorded' = {} /\ blocks' \in [Ips -> Blocks \cup {NoBlock}] /\ mutex' \in Threads \cup {Free}
  BY DEF Restarts, Recorded
<1>4. excused \subseteq excused' /\ excused' \subseteq excused \cup rules
  BY DEF Restarts
<1>5. FirewallTypeOK'
  BY <1>1, <1>2, <1>3, <1>4 DEF FirewallInv, FirewallTypeOK, Holding
<1>6. Shaped'
  BY DEF Restarts, Shaped
<1>7. StemsDiffer' /\ Enforced'
  BY <1>2, <1>3 DEF StemsDiffer, Enforced, Adding, Deleting
<1>8. OverdueIsHarmless'
  BY <1>1, <1>2, <1>3, <1>4 DEF FirewallInv, OverdueIsHarmless, BeingAdded
<1>9. rules' \ excused' = {}
  <2>1. CASE pc[Owner] = "done"
    <3>1. /\ Recorded = {} /\ pc[Loop] = "done" /\ \A t \in Callers : pc[t] = "idle"
      BY <2>1 DEF FirewallInv, ClosesAlone
    <3>2. \A t \in Threads : pc[t] # "add_out"
      BY <2>1, <3>1 DEF Threads
    <3>3. QED
      BY <1>1, <1>4, <3>1, <3>2 DEF FirewallInv, Accounted
  <2>2. CASE pc[Owner] # "done"
    BY <1>1, <2>2 DEF Restarts
  <2>3. QED
    BY <2>1, <2>2
<1>10. Accounted'
  BY <1>2, <1>9 DEF Accounted, Deleting
<1>11. ClosesAlone'
  BY <1>1, <1>3 DEF ClosesAlone, Deleting
<1>12. QED
  BY <1>5, <1>6, <1>7, <1>8, <1>10, <1>11 DEF FirewallInv

(* Nothing changes: nothing to show, but for the primed operators.         *)
LEMMA StutterPreserves == FirewallInv /\ UNCHANGED firewallVars => FirewallInv'
<1> SUFFICES ASSUME FirewallInv, UNCHANGED firewallVars PROVE FirewallInv'
  OBVIOUS
<1>1. Recorded' = Recorded
  BY DEF firewallVars, Recorded
<1>2. /\ \A ip : BeingDeleted(ip)' <=> BeingDeleted(ip)
      /\ \A s : BeingAdded(s)' <=> BeingAdded(s)
  BY DEF firewallVars, BeingDeleted, BeingAdded
<1>3. FirewallTypeOK' /\ Shaped' /\ ClosesAlone'
  BY <1>1 DEF firewallVars, FirewallInv, FirewallTypeOK, Shaped, ClosesAlone
<1>4. StemsDiffer' /\ OverdueIsHarmless' /\ Enforced' /\ Accounted'
  BY <1>1, <1>2 DEF firewallVars, FirewallInv, StemsDiffer, OverdueIsHarmless, Enforced, Accounted
<1>5. QED
  BY <1>3, <1>4 DEF FirewallInv

(* Every step of callers, expiry loop, destructor and host keeps it.       *)
LEMMA FirewallStep == FirewallInv /\ [FirewallNext]_firewallVars => FirewallInv'
<1> SUFFICES ASSUME FirewallInv, [FirewallNext]_firewallVars PROVE FirewallInv'
  OBVIOUS
<1>1. ASSUME NEW t \in Callers, NEW ip \in Ips, BlockBegins(t, ip) \/ UnblockBegins(t, ip)
      PROVE  FirewallInv'
  BY <1>1, BlockBeginsPreserves, UnblockBeginsPreserves
<1>2. ASSUME NEW t \in Callers, CallerStep(t) PROVE FirewallInv'
  BY <1>2, FreeIsNobody, AddInPreserves, AddOutPreserves, DeleteInPreserves, DeleteOutPreserves
     DEF CallerStep
<1>3. ASSUME NEW ip \in Ips, Expires(ip) PROVE FirewallInv'
  BY <1>3, ExpiresPreserves
<1>4. CASE LoopStep
  BY <1>4, FreeIsNobody, LoopPreserves, DeleteInPreserves, DeleteOutPreserves DEF LoopStep
<1>5. CASE Stops \/ OwnerStep
  BY <1>5, FreeIsNobody, OwnerPreserves, DeleteInPreserves, DeleteOutPreserves DEF OwnerStep
<1>6. CASE OverdueEnds \/ Restarts \/ UNCHANGED firewallVars
  BY <1>6, OverduePreserves, RestartsPreserves, StutterPreserves
<1>7. QED
  BY <1>1, <1>2, <1>3, <1>4, <1>5, <1>6 DEF FirewallNext

(* The blocker keeps to its invariant through every order of calls,        *)
(* expiries, failed and late netsh processes, shutdowns and restarts.      *)
THEOREM BlockerInvariantHolds == FirewallSpec => []FirewallInv
  BY FirewallInitEstablishes, FirewallStep, PTL DEF FirewallSpec

(* The types of firewall_blocker.h, and a mutex that one thread holds.     *)
THEOREM BlockerTypeCorrect == FirewallSpec => []FirewallTypeOK
<1>1. FirewallInv => FirewallTypeOK
  BY DEF FirewallInv
<1>2. QED
  BY <1>1, BlockerInvariantHolds, PTL

(* An address with a record is blocked by a rule, whenever somebody can    *)
(* look: nobody who holds the mutex is in the middle of deleting it.       *)
THEOREM RecordedIsBlocked == FirewallSpec => []RecordedIsInForce
<1>1. ASSUME FirewallInv, mutex = Free
      PROVE  \A ip \in Recorded : \E r \in rules : r.stem = blocks[ip].stem
  <2>1. \A ip : ~BeingDeleted(ip)
    BY <1>1, TypesOfThreads, FreeIsNobody DEF FirewallInv, ThreadsTyped, BeingDeleted, Holding
  <2>2. QED
    BY <1>1, <2>1 DEF FirewallInv, Enforced
<1>2. FirewallInv => RecordedIsInForce
  BY <1>1 DEF RecordedIsInForce
<1>3. QED
  BY <1>2, BlockerInvariantHolds, PTL

(* A rule without a record is excused: netsh misreported, or the process   *)
(* was killed.                                                             *)
THEOREM OnlyExcusedOrphans == FirewallSpec => []OrphansAreExcused
<1>1. ASSUME FirewallInv, mutex = Free
      PROVE  \A r \in rules \ excused : \E ip \in Recorded : blocks[ip].stem = r.stem
  <2>1. \A t \in Threads : pc[t] # "add_out"
    BY <1>1, TypesOfThreads, FreeIsNobody DEF FirewallInv, ThreadsTyped, Holding, Adding
  <2>2. QED
    BY <1>1, <2>1 DEF FirewallInv, Accounted
<1>2. FirewallInv => OrphansAreExcused
  BY <1>1 DEF OrphansAreExcused
<1>3. QED
  BY <1>2, BlockerInvariantHolds, PTL
=============================================================================
