----------------------------- MODULE Cip30Wallet -----------------------------
(***************************************************************************)
(* The CIP-30 wallet of packages/cip30: wallet objects that pages find at  *)
(* window.bcc, the list of allowed sites each of them keeps in memory, and *)
(* the copy of that list in a storage that all of them share.              *)
(*                                                                         *)
(* One action stands for the code between two awaits, except that reading  *)
(* and writing the stored list are two steps: the storage is shared with   *)
(* wallet objects of other pages, and a page may go away in between.       *)
(***************************************************************************)
EXTENDS Naturals, Sequences, SequencesExt

CONSTANTS Wallet, Page, Call, Site,
          NoWallet,             \* a page that holds no wallet
          Host,                 \* [Page -> Site], the hostname of a page
          CallPage,             \* [Call -> Page], the page that calls `enable`
          PersistAllowList,     \* the option of that name
          MaxReloads            \* bound on the pages that go away

ASSUME AccessAssumption ==
    /\ NoWallet \notin Wallet
    /\ Host \in [Page -> Site]
    /\ CallPage \in [Call -> Page]
    /\ PersistAllowList \in BOOLEAN
    /\ MaxReloads \in Nat

VARIABLES
    alive,                      \* the wallet objects that exist
    allowList,                  \* [Wallet -> Seq(Site)]
    stored,                     \* the stored list, Seq(Site)
    bcc,                        \* window.bcc[name] of each page
    stage,                      \* how far each call of `enable` has come
    via,                        \* the wallet object that serves the call
    read,                       \* the stored list as the call has read it
    wasEnabled,                 \* what isEnabled said when the call was made
    granted,                    \* history: the sites the user has allowed
    overtaken,                  \* history: the calls that wrote the stored list
                                \* after this one had read it
    reloads

vars == <<alive, allowList, stored, bcc, stage, via, read, wasEnabled,
          granted, overtaken, reloads>>

SiteOf == [c \in Call |-> Host[CallPage[c]]]

Pending == {"asking", "storing"}

AccessTypeOK ==
    /\ alive \subseteq Wallet
    /\ allowList \in [Wallet -> Seq(Site)]
    /\ stored \in Seq(Site)
    /\ bcc \in [Page -> Wallet \cup {NoWallet}]
    /\ stage \in [Call -> Pending \cup {"idle", "api", "refused", "failed",
                                        "unsaved", "gone"}]
    /\ via \in [Call -> Wallet \cup {NoWallet}]
    /\ read \in [Call -> Seq(Site)]
    /\ wasEnabled \in [Call -> BOOLEAN]
    /\ granted \subseteq Site
    /\ overtaken \in [Call -> SUBSET Call]
    /\ reloads \in 0 .. MaxReloads

Init ==
    /\ alive = {}
    /\ allowList = [w \in Wallet |-> <<>>]
    /\ stored = <<>>
    /\ bcc = [p \in Page |-> NoWallet]
    /\ stage = [c \in Call |-> "idle"]
    /\ via = [c \in Call |-> NoWallet]
    /\ read = [c \in Call |-> <<>>]
    /\ wasEnabled = [c \in Call |-> FALSE]
    /\ granted = {}
    /\ overtaken = [c \in Call |-> {}]
    /\ reloads = 0

-----------------------------------------------------------------------------
(* A page whose code is between reading and writing runs nothing else. *)
Runs(w) == \A c \in Call : stage[c] = "storing" => via[c] # w

\* the constructor
Construct(w) ==
    /\ w \notin alive
    /\ alive' = alive \cup {w}
    /\ allowList' = [allowList EXCEPT ![w] =
                        IF PersistAllowList THEN stored ELSE <<>>]
    /\ UNCHANGED <<stored, bcc, stage, via, read, wasEnabled, granted, overtaken,
                   reloads>>

\* injectWindow: the first wallet of a name keeps its place
InjectWindow(p, w) ==
    /\ w \in alive
    /\ Runs(w)
    /\ bcc[p] = NoWallet
    /\ bcc' = [bcc EXCEPT ![p] = w]
    /\ UNCHANGED <<alive, allowList, stored, stage, via, read, wasEnabled,
                   granted, overtaken, reloads>>

IsEnabled(w, site) == site \in ToSet(allowList[w])

\* enable, up to `await this.requestAccess()`
Enable(c) ==
    LET w == bcc[CallPage[c]] IN
    /\ stage[c] = "idle"
    /\ w # NoWallet
    /\ Runs(w)
    /\ via' = [via EXCEPT ![c] = w]
    /\ wasEnabled' = [wasEnabled EXCEPT ![c] = IsEnabled(w, SiteOf[c])]
    /\ stage' = [stage EXCEPT ![c] =
                    IF PersistAllowList /\ IsEnabled(w, SiteOf[c])
                    THEN "api" ELSE "asking"]
    /\ UNCHANGED <<alive, allowList, stored, bcc, read, granted, overtaken,
                   reloads>>

\* allowApplication: the list in memory, then the stored one is read
UserAllows(c) ==
    /\ stage[c] = "asking"
    /\ Runs(via[c])
    /\ granted' = granted \cup {SiteOf[c]}
    /\ allowList' = [allowList EXCEPT ![via[c]] = Append(@, SiteOf[c])]
    /\ stage' = [stage EXCEPT ![c] =
                    IF PersistAllowList THEN "storing" ELSE "api"]
    /\ read' = [read EXCEPT ![c] = IF PersistAllowList THEN stored ELSE @]
    /\ UNCHANGED <<alive, stored, bcc, via, wasEnabled, overtaken, reloads>>

Overtakes(c) ==
    overtaken' = [d \in Call |-> IF stage[d] = "storing" /\ d # c
                                 THEN overtaken[d] \cup {c} ELSE overtaken[d]]

\* Mutant: the list in memory is stored.
StoreOwnList(c) ==
    /\ stage[c] = "storing"
    /\ stored' = allowList[via[c]]
    /\ Overtakes(c)
    /\ stage' = [stage EXCEPT ![c] = "api"]
    /\ UNCHANGED <<alive, allowList, bcc, via, read, wasEnabled, granted,
                   reloads>>

\* storage.setItem
Store(c) ==
    /\ stage[c] = "storing"
    /\ stored' = Append(read[c], SiteOf[c])
    /\ Overtakes(c)
    /\ stage' = [stage EXCEPT ![c] = "api"]
    /\ UNCHANGED <<alive, allowList, bcc, via, read, wasEnabled, granted,
                   reloads>>

\* Mutant: the error of the storage is swallowed.
StoreFailsSilently(c) ==
    /\ stage[c] = "storing"
    /\ stage' = [stage EXCEPT ![c] = "api"]
    /\ UNCHANGED <<alive, allowList, stored, bcc, via, read, wasEnabled,
                   granted, overtaken, reloads>>

\* storage.setItem throws (a full storage), the list in memory keeps the site
StoreFails(c) ==
    /\ stage[c] = "storing"
    /\ stage' = [stage EXCEPT ![c] = "unsaved"]
    /\ UNCHANGED <<alive, allowList, stored, bcc, via, read, wasEnabled,
                   granted, overtaken, reloads>>

\* Mutant: the answer of the user is not looked at.
IgnoresRefusal(c) ==
    /\ stage[c] = "asking"
    /\ Runs(via[c])
    /\ \E outcome \in {"api", "failed"} :
           stage' = [stage EXCEPT ![c] = outcome]
    /\ UNCHANGED <<alive, allowList, stored, bcc, via, read, wasEnabled,
                   granted, overtaken, reloads>>

\* the user says no, or requestAccess rejects
UserRefuses(c) ==
    /\ stage[c] = "asking"
    /\ Runs(via[c])
    /\ \E outcome \in {"refused", "failed"} :
           stage' = [stage EXCEPT ![c] = outcome]
    /\ UNCHANGED <<alive, allowList, stored, bcc, via, read, wasEnabled,
                   granted, overtaken, reloads>>

\* the page of a wallet object goes away, with all that is pending on it
Reload(w) ==
    /\ w \in alive
    /\ reloads < MaxReloads
    /\ reloads' = reloads + 1
    /\ alive' = alive \ {w}
    /\ allowList' = [allowList EXCEPT ![w] = <<>>]
    /\ bcc' = [p \in Page |-> IF bcc[p] = w THEN NoWallet ELSE bcc[p]]
    /\ stage' = [c \in Call |-> IF via[c] = w /\ stage[c] \in Pending
                                THEN "gone" ELSE stage[c]]
    /\ UNCHANGED <<stored, via, read, wasEnabled, granted, overtaken>>

CallStep(c) ==
    \/ Enable(c) \/ UserAllows(c) \/ Store(c) \/ StoreFails(c) \/ UserRefuses(c)

Next ==
    \/ \E w \in Wallet : Construct(w) \/ Reload(w)
    \/ \E p \in Page, w \in Wallet : InjectWindow(p, w)
    \/ \E c \in Call : CallStep(c)

Spec == Init /\ [][Next]_vars

-----------------------------------------------------------------------------
(* No list, in memory, stored, or read by a call that is about to write it *)
(* back, names a site the user did not allow, whatever wallet objects come *)
(* and go between the question and its answer (Wallet.ts:72-77).           *)
EnabledWasGranted ==
    /\ \A w \in Wallet : ToSet(allowList[w]) \subseteq granted
    /\ ToSet(stored) \subseteq granted
    /\ \A c \in Call : /\ ToSet(read[c]) \subseteq granted
                       /\ stage[c] \in {"storing", "api"} => SiteOf[c] \in granted

(* What a call writes to the storage. *)
Written(c) == ToSet(read[c]) \cup {SiteOf[c]}

(* A call wrote the stored list without a site that another one had put    *)
(* there after the first had read it.                                      *)
Overwritten(site) ==
    \E c \in Call : /\ stage[c] = "api" /\ site \notin Written(c)
                    /\ \E d \in overtaken[c] : site \in Written(d)

(* With a persisted list, a site that was given the API is found by every  *)
(* wallet object created later, unless saving it has failed for a call,    *)
(* which was then rejected (Wallet.ts:73-78 adds to the list in memory     *)
(* before it writes, and never writes again for a site it finds there), or *)
(* pages wrote at the same time and one took the site out again.           *)
GrantsAreRemembered ==
    PersistAllowList =>
        \A c \in Call : stage[c] = "api" =>
            \/ SiteOf[c] \in ToSet(stored)
            \/ \E d \in Call : stage[d] = "unsaved" /\ SiteOf[d] = SiteOf[c]
            \/ Overwritten(SiteOf[c])

(* A stored grant is lost only to a wallet object that had read the list   *)
(* when another one wrote the grant to it, never to what a wallet object   *)
(* keeps in memory, however old that is: the list is read again for every  *)
(* write (Wallet.ts:76-78).                                                *)
LostOnlyToOverlap ==
    [][\A site \in ToSet(stored) \ ToSet(stored') :
          \E c, d \in Call : /\ stage[c] = "storing" /\ stage'[c] = "api"
                            /\ d \in overtaken[c] /\ via[d] # via[c]
                            /\ site \in Written(d)]_stored

(* Wallet.ts:94-95: if isEnabled returns true, then any subsequent calls   *)
(* to wallet.enable() during the current session should succeed.           *)
EnabledCallsSucceed ==
    \A c \in Call : wasEnabled[c] => stage[c] # "refused"

(* The wallet gives what WalletAccess promises; a call of a page that went *)
(* away stays open.                                                        *)
AnswerTo(c) ==
    CASE stage[c] = "api" -> "api"
      [] stage[c] \in {"refused", "failed", "unsaved"} -> "rejected"
      [] OTHER -> "open"

Access == INSTANCE WalletAccess WITH
              answer <- [c \in Call |-> AnswerTo(c)]

ImplementsAccess == Access!Spec
=============================================================================
