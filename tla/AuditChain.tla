------------------------------ MODULE AuditChain ------------------------------
(***************************************************************************)
(* core/audit_chain: the log every component writes to.  An entry's hash   *)
(* covers its text (id, time, type and payload, as calculate_entry_hash    *)
(* runs them together) and the hash of the entry before it.  SHA-256 is    *)
(* taken to be injective: a hash is the pair it was computed from.  Each   *)
(* operation holds the chain's mutex from beginning to end.                *)
(***************************************************************************)
EXTENDS Naturals, Sequences

CONSTANTS Texts, Genesis

VARIABLES chain,        \* AuditChain::chain_
          written       \* the texts in the order they were added, to compare with

auditVars == <<chain, written>>

EntryHash(text, prev) == <<text, prev>>

HeadHash == IF chain = <<>> THEN Genesis ELSE chain[Len(chain)].hash

AuditInit == chain = <<>> /\ written = <<>>

AddEntry(text) ==
  /\ chain' = Append(chain, [text |-> text, prev |-> HeadHash,
                             hash |-> EntryHash(text, HeadHash)])
  /\ written' = Append(written, text)

(* tamper_entry_for_testing, and any edit of the stored log: the content   *)
(* of an entry changes, its hash does not.                                 *)
Tamper(i, text) ==
  /\ chain' = [chain EXCEPT ![i].text = text]
  /\ UNCHANGED written

AuditNext ==
  \E text \in Texts : AddEntry(text) \/ \E i \in DOMAIN chain : Tamper(i, text)

AuditSpec == AuditInit /\ [][AuditNext]_auditVars

-----------------------------------------------------------------------------
(* What verify_chain finds wrong at an entry: the hash does not match the  *)
(* content, or the link does not match the entry before.                   *)
Mismatch(i) == chain[i].hash # EntryHash(chain[i].text, chain[i].prev)
Unlinked(i) == chain[i].prev # IF i = 1 THEN Genesis ELSE chain[i-1].hash
Bad(i) == Mismatch(i) \/ Unlinked(i)

Valid == \A i \in DOMAIN chain : ~Bad(i)

(* tampered_entry_index. *)
IsReported(i) == i \in DOMAIN chain /\ Bad(i) /\ \A j \in 1 .. i-1 : ~Bad(j)

-----------------------------------------------------------------------------
(* verify_chain passes exactly when every entry still says what was        *)
(* written, however many entries were appended after an edit.              *)
VerifyMeansUntouched ==
  Valid <=> /\ Len(chain) = Len(written)
            /\ \A i \in DOMAIN chain : chain[i].text = written[i]

(* The entry verify_chain names is the first one that was edited: an edit  *)
(* never shows up as a broken link further on.                             *)
ReportedIsFirstEdited ==
  \A i \in DOMAIN chain :
    IsReported(i) <=> /\ chain[i].text # written[i]
                      /\ \A j \in 1 .. i-1 : chain[j].text = written[j]
=============================================================================
