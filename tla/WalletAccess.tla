---------------------------- MODULE WalletAccess ----------------------------
(***************************************************************************)
(* What a page may expect of the CIP-30 `enable`: a call is answered once, *)
(* and it is given the API only if the user has allowed its site.          *)
(***************************************************************************)
EXTENDS Naturals

CONSTANTS Call, Site,
          SiteOf                \* the site whose page makes a call

VARIABLES granted,              \* the sites the user has allowed
          answer                \* what each call was answered

accessVars == <<granted, answer>>

Init ==
    /\ granted = {}
    /\ answer = [c \in Call |-> "open"]

Answer(c, outcome) ==
    /\ answer[c] = "open"
    /\ answer' = [answer EXCEPT ![c] = outcome]

UserAllowsSite(c) ==
    /\ answer[c] = "open"
    /\ granted' = granted \cup {SiteOf[c]}
    /\ answer' \in {answer, [answer EXCEPT ![c] = "api"]}

GiveApi(c) ==
    /\ SiteOf[c] \in granted
    /\ Answer(c, "api")
    /\ UNCHANGED granted

Reject(c) ==
    /\ Answer(c, "rejected")
    /\ UNCHANGED granted

Next == \E c \in Call : UserAllowsSite(c) \/ GiveApi(c) \/ Reject(c)

Spec == Init /\ [][Next]_accessVars
=============================================================================
