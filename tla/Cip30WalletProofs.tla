-------------------------- MODULE Cip30WalletProofs --------------------------
(***************************************************************************)
(* Proofs about the CIP-30 wallet, for every number of pages, wallet       *)
(* objects and calls.                                                      *)
(***************************************************************************)
EXTENDS Cip30Wallet, TLAPS

(* Appending adds one member to the set of a list. *)
LEMMA ToSetAppend ==
    ASSUME NEW S, NEW s \in Seq(S), NEW x \in S
    PROVE  /\ Append(s, x) \in Seq(S)
           /\ ToSet(Append(s, x)) = ToSet(s) \cup {x}
<1>1. Append(s, x) \in Seq(S) /\ Len(Append(s, x)) = Len(s) + 1
  OBVIOUS
<1>2. \A i \in 1 .. Len(s) : Append(s, x)[i] = s[i]
  OBVIOUS
<1>3. Append(s, x)[Len(s) + 1] = x
  OBVIOUS
<1>4. DOMAIN s = 1 .. Len(s) /\ DOMAIN Append(s, x) = 1 .. Len(s) + 1
  BY <1>1
<1>5. Len(s) \in Nat
  OBVIOUS
<1>6. ASSUME NEW y PROVE y \in ToSet(Append(s, x)) <=> y \in ToSet(s) \cup {x}
  BY <1>2, <1>3, <1>4, <1>5 DEF ToSet
<1> QED
  BY <1>1, <1>6

\* An empty list names no site.
LEMMA ToSetEmpty == ASSUME NEW S PROVE <<>> \in Seq(S) /\ ToSet(<<>>) = {}
  BY DEF ToSet

\* Every call has a site.
LEMMA SiteOfType == \A c \in Call : SiteOf[c] \in Site
  BY AccessAssumption DEF SiteOf

(* A call that waits for an answer or writes is served by a wallet. *)
ServedCalls == \A c \in Call : stage[c] \in Pending => via[c] \in Wallet

(* Calls that are between reading and writing are of different wallets:    *)
(* a page runs nothing else in between.                                    *)
WritersApart ==
    \A c, d \in Call : stage[c] = "storing" /\ stage[d] = "storing" /\ c # d
                          => via[c] # via[d]

(* What was stored after a call had read the list, some other wallet       *)
(* object wrote meanwhile.                                                 *)
OvertakenBy(c, site) ==
    \E d \in overtaken[c] : via[d] # via[c] /\ site \in Written(d)

ReadThenOvertaken ==
    \A c \in Call : stage[c] = "storing" =>
        \A site \in ToSet(stored) \ ToSet(read[c]) : OvertakenBy(c, site)

(* A call that overtook one has written.                                   *)
OvertakersWrote == \A c \in Call : \A d \in overtaken[c] : stage[d] = "api"

Saved(s) ==
    \/ s \in ToSet(stored)
    \/ \E d \in Call : stage[d] = "unsaved" /\ SiteOf[d] = s
    \/ Overwritten(s)

BeingWritten(w, s) ==
    \E d \in Call : stage[d] = "storing" /\ via[d] = w /\ SiteOf[d] = s

(* A site is in memory only if it is stored, its writing has failed, it    *)
(* was overwritten, or a call of the same wallet object is about to write  *)
(* it.                                                                     *)
MemoryIsStored ==
    PersistAllowList => \A w \in Wallet, s \in Site :
        s \in ToSet(allowList[w]) => Saved(s) \/ BeingWritten(w, s)

GivenIsSaved ==
    PersistAllowList => \A c \in Call : stage[c] = "api" => Saved(SiteOf[c])

IInv == AccessTypeOK /\ ServedCalls /\ EnabledWasGranted

StorageInv ==
    /\ WritersApart
    /\ ReadThenOvertaken
    /\ OvertakersWrote
    /\ MemoryIsStored
    /\ GivenIsSaved

-----------------------------------------------------------------------------
\* Nothing is granted at first.
LEMMA InitIInv == Init => IInv
  BY AccessAssumption, ToSetEmpty
  DEF Init, IInv, AccessTypeOK, ServedCalls, EnabledWasGranted, Pending

\* Every step preserves the invariant.
LEMMA NextIInv == IInv /\ [Next]_vars => IInv'
<1> SUFFICES ASSUME IInv, [Next]_vars PROVE IInv'
  OBVIOUS
<1> USE SiteOfType DEF IInv, AccessTypeOK, ServedCalls, EnabledWasGranted, Pending
<1>1. ASSUME NEW w \in Wallet, Construct(w) PROVE IInv'
  BY <1>1, ToSetEmpty DEF Construct
<1>2. ASSUME NEW w \in Wallet, Reload(w) PROVE IInv'
  <2>1. reloads' \in 0 .. MaxReloads
    BY <1>2, AccessAssumption DEF Reload
  <2>2. allowList' \in [Wallet -> Seq(Site)] /\ bcc' \in [Page -> Wallet \cup {NoWallet}]
    BY <1>2, ToSetEmpty DEF Reload
  <2>3. stage' \in [Call -> Pending \cup {"idle", "api", "refused", "failed",
                                          "unsaved", "gone"}]
    BY <1>2 DEF Reload
  <2>4. AccessTypeOK' /\ ServedCalls'
    BY <1>2, <2>1, <2>2, <2>3 DEF Reload
  <2>5. EnabledWasGranted'
    BY <1>2, ToSetEmpty DEF Reload
  <2> QED
    BY <2>4, <2>5
<1>3. ASSUME NEW p \in Page, NEW w \in Wallet, InjectWindow(p, w) PROVE IInv'
  BY <1>3 DEF InjectWindow
<1>4. ASSUME NEW c \in Call, Enable(c) PROVE IInv'
  <2>1. bcc[CallPage[c]] \in Wallet
    BY <1>4, AccessAssumption DEF Enable
  <2>2. AccessTypeOK' /\ ServedCalls'
    BY <1>4, <2>1 DEF Enable, IsEnabled
  <2>3. EnabledWasGranted'
    BY <1>4, <2>1 DEF Enable, IsEnabled
  <2> QED
    BY <2>2, <2>3
<1>5. ASSUME NEW c \in Call, UserAllows(c) PROVE IInv'
  <2>1. via[c] \in Wallet
    BY <1>5 DEF UserAllows
  <2>2. /\ Append(allowList[via[c]], SiteOf[c]) \in Seq(Site)
        /\ ToSet(Append(allowList[via[c]], SiteOf[c]))
              = ToSet(allowList[via[c]]) \cup {SiteOf[c]}
    BY <2>1, ToSetAppend
  <2> QED
    BY <1>5, <2>1, <2>2 DEF UserAllows
<1>6. ASSUME NEW c \in Call, Store(c) PROVE IInv'
  <2>0. overtaken' \in [Call -> SUBSET Call]
    BY <1>6 DEF Store, Overtakes
  <2>1. /\ Append(read[c], SiteOf[c]) \in Seq(Site)
        /\ ToSet(Append(read[c], SiteOf[c])) = ToSet(read[c]) \cup {SiteOf[c]}
    BY ToSetAppend
  <2> QED
    BY <1>6, <2>0, <2>1 DEF Store
<1>7. ASSUME NEW c \in Call, StoreFails(c) PROVE IInv'
  BY <1>7 DEF StoreFails
<1>8. ASSUME NEW c \in Call, UserRefuses(c) PROVE IInv'
  BY <1>8 DEF UserRefuses
<1>9. CASE UNCHANGED vars
  BY <1>9 DEF vars
<1> QED
  BY <1>1, <1>2, <1>3, <1>4, <1>5, <1>6, <1>7, <1>8, <1>9 DEF Next, CallStep

(* The variables stay of their types, for every instance. *)
THEOREM AccessTypeCorrect == Spec => []AccessTypeOK
<1>1. IInv => AccessTypeOK
  BY DEF IInv
<1> QED
  BY InitIInv, NextIInv, <1>1, PTL DEF Spec

(* No list ever names a site the user did not allow, with or without a     *)
(* persisted list, and whatever the storage does (Wallet.ts:72-88).        *)
THEOREM OnlyGrantedSites == Spec => []EnabledWasGranted
<1>1. IInv => EnabledWasGranted
  BY DEF IInv
<1> QED
  BY InitIInv, NextIInv, <1>1, PTL DEF Spec

-----------------------------------------------------------------------------
\* Nothing is stored at first.
LEMMA InitStorageInv == Init => StorageInv
  BY ToSetEmpty
  DEF Init, StorageInv, WritersApart, ReadThenOvertaken, OvertakersWrote, MemoryIsStored,
      GivenIsSaved

\* What is written and read stays, when a call has written; so what was
\* overwritten stays overwritten.
LEMMA OverwrittenStays ==
    ASSUME IInv, StorageInv, stored' = stored \/ \E c \in Call : Store(c),
           \A c \in Call : stage[c] = "api" => stage'[c] = "api" /\ read'[c] = read[c],
           \A c \in Call : stage[c] = "api" => overtaken'[c] = overtaken[c]
    PROVE  \A s : Overwritten(s) => Overwritten(s)'
<1> SUFFICES ASSUME NEW s, Overwritten(s) PROVE Overwritten(s)'
  OBVIOUS
<1>1. PICK c \in Call : stage[c] = "api" /\ s \notin Written(c)
                        /\ \E d \in overtaken[c] : s \in Written(d)
  BY DEF Overwritten
<1>2. PICK d \in overtaken[c] : s \in Written(d)
  BY <1>1
<1>3. d \in Call /\ stage[d] = "api"
  BY <1>1, <1>2 DEF IInv, AccessTypeOK, StorageInv, OvertakersWrote
<1>4. Written(c)' = Written(c) /\ Written(d)' = Written(d)
  BY <1>1, <1>3 DEF Written, SiteOf
<1> QED
  BY <1>1, <1>2, <1>4 DEF Overwritten

\* A step that leaves the stored list, and changes one call at most, keeps
\* what holds of the calls that write.
LEMMA WritersKept ==
    ASSUME IInv, StorageInv, stored' = stored, overtaken' = overtaken,
           \A d \in Call : stage[d] = "api" => stage'[d] = "api",
           \A d \in Call : stage'[d] = "storing" => stage[d] = "storing",
           \A d \in Call : stage[d] \in {"storing", "api"} => read'[d] = read[d] /\ via'[d] = via[d]
    PROVE  /\ WritersApart' /\ ReadThenOvertaken' /\ OvertakersWrote'
           /\ \A s : Overwritten(s) => Overwritten(s)'
<1> USE DEF IInv, AccessTypeOK, StorageInv
<1>1. WritersApart' /\ OvertakersWrote'
  BY DEF WritersApart, OvertakersWrote
<1>2. ASSUME NEW c \in Call, stage'[c] = "storing", NEW s \in ToSet(stored) \ ToSet(read'[c])
      PROVE  OvertakenBy(c, s)'
  <2>1. stage[c] = "storing" /\ read'[c] = read[c] /\ via'[c] = via[c]
    BY <1>2
  <2>2. PICK d \in overtaken[c] : via[d] # via[c] /\ s \in Written(d)
    BY <1>2, <2>1 DEF ReadThenOvertaken, OvertakenBy
  <2>3. d \in Call /\ stage[d] = "api"
    BY <2>2 DEF OvertakersWrote
  <2>4. Written(d)' = Written(d) /\ via'[d] = via[d]
    BY <2>3 DEF Written, SiteOf
  <2> QED
    BY <2>1, <2>2, <2>4 DEF OvertakenBy
<1>3. ReadThenOvertaken'
  BY <1>2 DEF ReadThenOvertaken
<1>4. \A s : Overwritten(s) => Overwritten(s)'
  BY OverwrittenStays
<1> QED
  BY <1>1, <1>3, <1>4

\* A call that writes puts its own site, takes out only what others wrote
\* since it read the list, and what it takes out is overwritten.
LEMMA StoreKeeps ==
    ASSUME IInv, StorageInv, NEW c \in Call, Store(c)
    PROVE  /\ WritersApart' /\ ReadThenOvertaken' /\ OvertakersWrote'
           /\ ToSet(stored') = ToSet(read[c]) \cup {SiteOf[c]}
           /\ \A s \in ToSet(stored) \ ToSet(stored') : OvertakenBy(c, s)
           /\ \A s : Saved(s) => Saved(s)'
<1> USE SiteOfType DEF IInv, AccessTypeOK, StorageInv
<1>1. /\ stage[c] = "storing" /\ stage' = [stage EXCEPT ![c] = "api"]
      /\ read' = read /\ via' = via
      /\ \A d \in Call : overtaken'[d] = IF stage[d] = "storing" /\ d # c
                                          THEN overtaken[d] \cup {c} ELSE overtaken[d]
  BY DEF Store, Overtakes
<1>2. ToSet(stored') = ToSet(read[c]) \cup {SiteOf[c]}
  BY ToSetAppend DEF Store
<1>3. \A d \in Call : Written(d)' = Written(d)
  BY <1>1 DEF Written, SiteOf
<1>4. WritersApart'
  BY <1>1 DEF WritersApart
<1>5. ASSUME NEW d \in Call, NEW e \in overtaken'[d] PROVE stage'[e] = "api"
  <2>3. overtaken'[d] \in {overtaken[d], overtaken[d] \cup {c}}
    BY <1>1
  <2>1. e = c \/ e \in overtaken[d]
    BY <2>3
  <2>2. e \in overtaken[d] => e \in Call /\ stage[e] = "api"
    BY DEF OvertakersWrote
  <2> QED
    BY <1>1, <2>1, <2>2
<1>6. ReadThenOvertaken'
  <2> SUFFICES ASSUME NEW d \in Call, stage'[d] = "storing",
                      NEW s \in ToSet(stored') \ ToSet(read[d])
               PROVE  OvertakenBy(d, s)'
    BY <1>1 DEF ReadThenOvertaken
  <2>1. d # c /\ stage[d] = "storing" /\ c \in overtaken'[d]
    BY <1>1
  <2>2. via[c] # via[d] /\ s \in Written(c)
    BY <1>1, <1>2, <2>1 DEF WritersApart, Written
  <2> QED
    BY <1>1, <1>3, <2>1, <2>2 DEF OvertakenBy
<1>7. \A s \in ToSet(stored) \ ToSet(stored') : OvertakenBy(c, s)
  BY <1>1, <1>2 DEF ReadThenOvertaken
<1>8. ASSUME NEW s, Saved(s) PROVE Saved(s)'
  <2>1. CASE s \in ToSet(stored) /\ s \notin ToSet(stored')
    <3>1. PICK d \in overtaken[c] : s \in Written(d)
      BY <1>7, <2>1 DEF OvertakenBy
    <3>2. d \in overtaken'[c] /\ d \in Call /\ stage'[c] = "api" /\ s \notin Written(c)
      BY <1>1, <1>2, <2>1, <3>1 DEF Written
    <3>3. Overwritten(s)'
      BY <1>3, <3>1, <3>2 DEF Overwritten
    <3> QED
      BY <3>3 DEF Saved
  <2>2. CASE \E d \in Call : stage[d] = "unsaved" /\ SiteOf[d] = s
    BY <1>1, <2>2 DEF Saved, SiteOf
  <2>3. CASE Overwritten(s)
    <3>1. \A d \in Call : stage[d] = "api" => /\ stage'[d] = "api" /\ read'[d] = read[d]
                                              /\ overtaken'[d] = overtaken[d]
      BY <1>1
    <3>2. Overwritten(s)'
      BY <2>3, <3>1, OverwrittenStays
    <3> QED
      BY <3>2 DEF Saved
  <2> QED
    BY <1>8, <2>1, <2>2, <2>3 DEF Saved
<1> QED
  BY <1>2, <1>4, <1>5, <1>6, <1>7, <1>8 DEF OvertakersWrote

\* Every step preserves the invariant of the storage.
LEMMA NextStorageInv == IInv /\ StorageInv /\ [Next]_vars => StorageInv'
<1> SUFFICES ASSUME IInv, StorageInv, [Next]_vars PROVE StorageInv'
  OBVIOUS
<1> DEFINE Kept == /\ WritersApart' /\ ReadThenOvertaken' /\ OvertakersWrote'
                   /\ \A s : Overwritten(s) => Overwritten(s)'
<1> USE SiteOfType
    DEF IInv, AccessTypeOK, ServedCalls, Pending, StorageInv
<1>1. ASSUME NEW w \in Wallet, Construct(w) PROVE StorageInv'
  <2>1. \A s : (Saved(s) <=> Saved(s)')
                 /\ \A v : BeingWritten(v, s) <=> BeingWritten(v, s)'
    BY <1>1 DEF Construct, Saved, BeingWritten, Overwritten, Written, SiteOf
  <2>2. MemoryIsStored'
    <3>1. allowList'[w] = IF PersistAllowList THEN stored ELSE <<>>
      BY <1>1 DEF Construct
    <3>2. \A v \in Wallet \ {w} : allowList'[v] = allowList[v]
      BY <1>1 DEF Construct
    <3> QED
      BY <2>1, <3>1, <3>2, ToSetEmpty DEF MemoryIsStored, Saved
  <2>3. GivenIsSaved'
    BY <1>1, <2>1 DEF Construct, GivenIsSaved
  <2>4. Kept
    BY <1>1, WritersKept DEF Construct
  <2> QED
    BY <2>2, <2>3, <2>4
<1>2. ASSUME NEW w \in Wallet, Reload(w) PROVE StorageInv'
  <2>1. \A d \in Call : /\ stage[d] = "unsaved" <=> stage'[d] = "unsaved"
                        /\ stage[d] = "api" <=> stage'[d] = "api"
                        /\ via[d] # w => stage'[d] = stage[d]
    BY <1>2 DEF Reload
  <2>2. stored' = stored /\ via' = via /\ \A v \in Wallet \ {w} : allowList'[v] = allowList[v]
    BY <1>2 DEF Reload
  <2>8. Kept
    BY <1>2, WritersKept DEF Reload
  <2>3. \A s : Saved(s) => Saved(s)'
    BY <2>1, <2>2, <2>8 DEF Saved, SiteOf
  <2>4. \A s : \A v \in Wallet \ {w} : BeingWritten(v, s) => BeingWritten(v, s)'
    BY <2>1, <2>2 DEF BeingWritten
  <2>5. ToSet(allowList'[w]) = {}
    BY <1>2, ToSetEmpty DEF Reload
  <2>6. MemoryIsStored'
    BY <2>2, <2>3, <2>4, <2>5 DEF MemoryIsStored
  <2>7. GivenIsSaved'
    BY <2>1, <2>3 DEF GivenIsSaved
  <2> QED
    BY <2>6, <2>7, <2>8
<1>3. ASSUME NEW p \in Page, NEW w \in Wallet, InjectWindow(p, w) PROVE StorageInv'
  <2>1. Kept
    BY <1>3, WritersKept DEF InjectWindow
  <2>2. /\ stage' = stage /\ stored' = stored /\ via' = via /\ allowList' = allowList
        /\ SiteOf' = SiteOf
    BY <1>3 DEF InjectWindow, SiteOf
  <2>3. /\ \A s : Saved(s) => Saved(s)'
        /\ \A s, v : BeingWritten(v, s) => BeingWritten(v, s)'
    BY <2>1, <2>2 DEF Saved, BeingWritten
  <2> QED
    BY <2>1, <2>2, <2>3 DEF MemoryIsStored, GivenIsSaved
<1>4. ASSUME NEW c \in Call, Enable(c) PROVE StorageInv'
  <2> DEFINE w == bcc[CallPage[c]]
  <2>1. w \in Wallet
    BY <1>4, AccessAssumption DEF Enable
  <2>2. /\ stage[c] = "idle"
        /\ stage'[c] \in {"api", "asking"}
        /\ \A d \in Call \ {c} : stage'[d] = stage[d] /\ via'[d] = via[d]
        /\ stored' = stored /\ allowList' = allowList /\ read' = read
        /\ overtaken' = overtaken
    BY <1>4 DEF Enable
  <2>8. Kept
    BY <2>2, WritersKept
  <2>3. \A s : Saved(s) => Saved(s)'
    BY <2>2, <2>8 DEF Saved, SiteOf
  <2>4. \A s, v : BeingWritten(v, s) => BeingWritten(v, s)'
    BY <2>2 DEF BeingWritten
  <2>5. stage'[c] = "api" /\ PersistAllowList => Saved(SiteOf[c])
    <3> SUFFICES ASSUME stage'[c] = "api", PersistAllowList
                 PROVE  Saved(SiteOf[c])
      OBVIOUS
    <3>1. SiteOf[c] \in ToSet(allowList[w])
      BY <1>4 DEF Enable, IsEnabled
    <3>2. ~BeingWritten(w, SiteOf[c])
      BY <1>4 DEF Enable, Runs, BeingWritten
    <3> QED
      BY <2>1, <3>1, <3>2 DEF MemoryIsStored
  <2>6. MemoryIsStored'
    BY <2>2, <2>3, <2>4 DEF MemoryIsStored
  <2>7. GivenIsSaved'
    BY <2>2, <2>3, <2>5 DEF GivenIsSaved
  <2> QED
    BY <2>6, <2>7, <2>8
<1>5. ASSUME NEW c \in Call, UserAllows(c) PROVE StorageInv'
  <2>1. via[c] \in Wallet
    BY <1>5 DEF UserAllows
  <2>2. ToSet(allowList'[via[c]]) = ToSet(allowList[via[c]]) \cup {SiteOf[c]}
    BY <1>5, <2>1, ToSetAppend DEF UserAllows
  <2>3. /\ \A d \in Call \ {c} : stage'[d] = stage[d]
        /\ stage[c] = "asking"
        /\ stage'[c] = IF PersistAllowList THEN "storing" ELSE "api"
        /\ stored' = stored /\ via' = via /\ overtaken' = overtaken
        /\ \A v \in Wallet \ {via[c]} : allowList'[v] = allowList[v]
        /\ \A d \in Call \ {c} : read'[d] = read[d]
        /\ stage'[c] = "storing" => read'[c] = stored
        /\ \A d \in Call : stage[d] = "storing" => via[d] # via[c]
    BY <1>5 DEF UserAllows, Runs
  <2>10. \A s : Overwritten(s) => Overwritten(s)'
    BY <2>3, OverwrittenStays
  <2>4. \A s : Saved(s) => Saved(s)'
    BY <2>3, <2>10 DEF Saved, SiteOf
  <2>5. \A s, v : BeingWritten(v, s) => BeingWritten(v, s)'
    BY <2>3 DEF BeingWritten
  <2>6. PersistAllowList => BeingWritten(via[c], SiteOf[c])'
    BY <2>3 DEF BeingWritten
  <2>7. MemoryIsStored'
    BY <2>1, <2>2, <2>3, <2>4, <2>5, <2>6 DEF MemoryIsStored
  <2>8. GivenIsSaved'
    BY <2>3, <2>4 DEF GivenIsSaved
  <2>9. WritersApart'
    <3> SUFFICES ASSUME NEW d \in Call, NEW e \in Call, d # e, stage'[d] = "storing",
                        stage'[e] = "storing"
                 PROVE  via[d] # via[e]
      BY <2>3 DEF WritersApart
    <3>1. CASE d # c /\ e # c
      <4>1. stage[d] = "storing" /\ stage[e] = "storing"
        BY <2>3, <3>1
      <4> QED
        BY <4>1 DEF WritersApart
    <3>2. CASE d = c
      <4>1. stage[e] = "storing"
        BY <2>3, <3>2
      <4> QED
        BY <2>3, <3>2, <4>1
    <3>3. CASE e = c
      <4>1. stage[d] = "storing"
        BY <2>3, <3>3
      <4> QED
        BY <2>3, <3>3, <4>1
    <3> QED
      BY <3>1, <3>2, <3>3
  <2>12. OvertakersWrote'
    <3>1. ASSUME NEW d \in Call, NEW e \in overtaken[d] PROVE stage'[e] = "api"
      <4>1. e \in Call /\ stage[e] = "api"
        BY DEF OvertakersWrote
      <4> QED
        BY <2>3, <4>1
    <3> QED
      BY <2>3, <3>1 DEF OvertakersWrote
  <2>11. ReadThenOvertaken'
    <3> SUFFICES ASSUME NEW d \in Call, stage'[d] = "storing",
                        NEW s \in ToSet(stored) \ ToSet(read'[d])
                 PROVE  OvertakenBy(d, s)'
      BY <2>3 DEF ReadThenOvertaken
    <3>1. d # c /\ stage[d] = "storing" /\ read'[d] = read[d]
      BY <2>3
    <3>2. PICK e \in overtaken[d] : via[e] # via[d] /\ s \in Written(e)
      BY <3>1 DEF ReadThenOvertaken, OvertakenBy
    <3>3. e \in Call /\ stage[e] = "api"
      BY <3>2 DEF OvertakersWrote
    <3>4. e # c /\ Written(e)' = Written(e)
      BY <2>3, <3>3 DEF Written, SiteOf
    <3> QED
      BY <2>3, <3>2, <3>4 DEF OvertakenBy
  <2> QED
    BY <2>7, <2>8, <2>9, <2>11, <2>12
<1>6. ASSUME NEW c \in Call, Store(c) PROVE StorageInv'
  <2>1. /\ stage[c] = "storing" /\ stage'[c] = "api"
        /\ \A d \in Call \ {c} : stage'[d] = stage[d]
        /\ allowList' = allowList /\ via' = via
    BY <1>6 DEF Store
  <2>2. /\ WritersApart' /\ ReadThenOvertaken' /\ OvertakersWrote'
        /\ SiteOf[c] \in ToSet(stored') /\ \A s : Saved(s) => Saved(s)'
    BY <1>6, StoreKeeps
  <2>3. Saved(SiteOf[c])'
    BY <2>2 DEF Saved, SiteOf
  <2>4. \A s, v : BeingWritten(v, s) => BeingWritten(v, s)' \/ s = SiteOf[c]
    BY <2>1 DEF BeingWritten, SiteOf
  <2>5. MemoryIsStored'
    BY <2>1, <2>2, <2>3, <2>4 DEF MemoryIsStored
  <2>6. GivenIsSaved'
    BY <2>1, <2>2, <2>3 DEF GivenIsSaved, SiteOf
  <2> QED
    BY <2>2, <2>5, <2>6
<1>7. ASSUME NEW c \in Call, StoreFails(c) PROVE StorageInv'
  <2>1. /\ stage[c] = "storing" /\ stage'[c] = "unsaved"
        /\ \A d \in Call \ {c} : stage'[d] = stage[d]
        /\ stored' = stored /\ allowList' = allowList /\ via' = via
        /\ read' = read /\ overtaken' = overtaken
    BY <1>7 DEF StoreFails
  <2>6. Kept
    BY <2>1, WritersKept
  <2>2. \A s : Saved(s) => Saved(s)'
    BY <2>1, <2>6 DEF Saved, SiteOf
  <2>3. Saved(SiteOf[c])'
    BY <2>1 DEF Saved
  <2>4. \A s, v : BeingWritten(v, s) => BeingWritten(v, s)' \/ s = SiteOf[c]
    BY <2>1 DEF BeingWritten
  <2>5. MemoryIsStored' /\ GivenIsSaved'
    BY <2>1, <2>2, <2>3, <2>4 DEF MemoryIsStored, GivenIsSaved
  <2> QED
    BY <2>5, <2>6
<1>8. ASSUME NEW c \in Call, UserRefuses(c) PROVE StorageInv'
  <2>1. /\ stage[c] = "asking" /\ stage'[c] \in {"refused", "failed"}
        /\ \A d \in Call \ {c} : stage'[d] = stage[d]
        /\ stored' = stored /\ allowList' = allowList /\ via' = via
        /\ read' = read /\ overtaken' = overtaken
    BY <1>8 DEF UserRefuses
  <2>5. Kept
    BY <2>1, WritersKept
  <2>2. \A s : Saved(s) => Saved(s)'
    BY <2>1, <2>5 DEF Saved, SiteOf
  <2>3. \A s, v : BeingWritten(v, s) => BeingWritten(v, s)'
    BY <2>1 DEF BeingWritten
  <2>4. MemoryIsStored' /\ GivenIsSaved'
    BY <2>1, <2>2, <2>3 DEF MemoryIsStored, GivenIsSaved
  <2> QED
    BY <2>4, <2>5
<1>9. CASE UNCHANGED vars
  <2>1. /\ stage' = stage /\ stored' = stored /\ via' = via /\ allowList' = allowList
        /\ read' = read /\ overtaken' = overtaken /\ SiteOf' = SiteOf
    BY <1>9 DEF vars, SiteOf
  <2>2. Kept
    BY <2>1, WritersKept
  <2>3. /\ \A s : Saved(s) => Saved(s)'
        /\ \A s, v : BeingWritten(v, s) => BeingWritten(v, s)'
    BY <2>1, <2>2 DEF Saved, BeingWritten
  <2> QED
    BY <2>1, <2>2, <2>3 DEF MemoryIsStored, GivenIsSaved
<1> QED
  BY <1>1, <1>2, <1>3, <1>4, <1>5, <1>6, <1>7, <1>8, <1>9 DEF Next, CallStep

(* A site that was given the API is found by later wallet objects, unless  *)
(* saving it has failed for a call that was rejected, or a wallet object   *)
(* wrote a list it had read before another one wrote the site to it        *)
(* (Wallet.ts:73-78).                                                      *)
THEOREM GrantsRemembered == Spec => []GrantsAreRemembered
<1>1. StorageInv => GrantsAreRemembered
  BY DEF StorageInv, GivenIsSaved, Saved, GrantsAreRemembered
<1> QED
  BY InitIInv, NextIInv, InitStorageInv, NextStorageInv, <1>1, PTL DEF Spec

(* A stored grant is lost only where two wallet objects write at the same  *)
(* time: the one that takes it out had read the list before the other      *)
(* wrote the grant.  One wallet object loses none.                         *)
THEOREM GrantsLostToOverlap == Spec => LostOnlyToOverlap
<1> DEFINE A == \A site \in ToSet(stored) \ ToSet(stored') :
                    \E c, d \in Call : /\ stage[c] = "storing" /\ stage'[c] = "api"
                                      /\ d \in overtaken[c] /\ via[d] # via[c]
                                      /\ site \in Written(d)
<1>1. IInv /\ StorageInv /\ [Next]_vars => [A]_stored
  <2> SUFFICES ASSUME IInv, StorageInv, [Next]_vars, stored' # stored PROVE A
    OBVIOUS
  <2>1. PICK c \in Call : Store(c)
    BY DEF Next, CallStep, Construct, Reload, InjectWindow, Enable, UserAllows, StoreFails,
           UserRefuses, vars
  <2>2. stage[c] = "storing" /\ stage'[c] = "api" /\ overtaken[c] \subseteq Call
    BY <2>1 DEF Store, IInv, AccessTypeOK
  <2> QED
    BY <2>1, <2>2, StoreKeeps DEF OvertakenBy
<1> QED
  BY InitIInv, NextIInv, InitStorageInv, NextStorageInv, <1>1, PTL DEF Spec, LostOnlyToOverlap

-----------------------------------------------------------------------------
(* Every step answers at most one call, and gives the API only to calls of *)
(* a site the user has allowed: the wallet implements WalletAccess.        *)
THEOREM WalletImplementsAccess == Spec => ImplementsAccess
<1>1. Init => Access!Init
  BY DEF Init, Access!Init, AnswerTo
<1>2. IInv /\ [Next]_vars => [Access!Next]_(Access!accessVars)
  <2> SUFFICES ASSUME IInv, [Next]_vars
               PROVE  Access!Next \/ UNCHANGED Access!accessVars
    OBVIOUS
  <2> DEFINE ans == [c \in Call |-> AnswerTo(c)]
  <2> USE DEF Access!accessVars, AnswerTo
  <2>1. ASSUME NEW w \in Wallet, Construct(w) PROVE UNCHANGED Access!accessVars
    BY <2>1 DEF Construct
  <2>2. ASSUME NEW w \in Wallet, Reload(w) PROVE UNCHANGED Access!accessVars
    BY <2>2 DEF Reload, Pending, IInv, AccessTypeOK
  <2>3. ASSUME NEW p \in Page, NEW w \in Wallet, InjectWindow(p, w)
        PROVE  UNCHANGED Access!accessVars
    BY <2>3 DEF InjectWindow
  <2>4. ASSUME NEW c \in Call, Enable(c)
        PROVE  Access!GiveApi(c) \/ UNCHANGED Access!accessVars
    BY <2>4, AccessAssumption
    DEF Enable, IsEnabled, IInv, AccessTypeOK, EnabledWasGranted,
        Access!GiveApi, Access!Answer
  <2>5. ASSUME NEW c \in Call, UserAllows(c) PROVE Access!UserAllowsSite(c)
    BY <2>5 DEF UserAllows, Access!UserAllowsSite, IInv, AccessTypeOK
  <2>6. ASSUME NEW c \in Call, Store(c) PROVE Access!GiveApi(c)
    BY <2>6 DEF Store, Access!GiveApi, Access!Answer, IInv, AccessTypeOK,
                EnabledWasGranted
  <2>7. ASSUME NEW c \in Call, StoreFails(c) PROVE Access!Reject(c)
    BY <2>7 DEF StoreFails, Access!Reject, Access!Answer, IInv, AccessTypeOK
  <2>8. ASSUME NEW c \in Call, UserRefuses(c) PROVE Access!Reject(c)
    BY <2>8 DEF UserRefuses, Access!Reject, Access!Answer, IInv, AccessTypeOK
  <2>9. CASE UNCHANGED vars
    BY <2>9 DEF vars
  <2> QED
    BY <2>1, <2>2, <2>3, <2>4, <2>5, <2>6, <2>7, <2>8, <2>9
    DEF Next, CallStep, Access!Next
<1> QED
  BY <1>1, <1>2, InitIInv, NextIInv, PTL DEF Spec, ImplementsAccess, Access!Spec
=============================================================================
