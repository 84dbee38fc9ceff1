----------------------------- MODULE MCArtifacts -----------------------------
(* Instances of Artifacts for TLC.                                          *)
EXTENDS Artifacts

Node(id, port) == [id |-> id, port |-> port]
Org(name, nodes) == [name |-> name, nodes |-> nodes]
Token == [base |-> "token.go", contract |-> "Token"]
Vote == [base |-> "vote.go", contract |-> "Vote"]

\* sanitize: lower case, spaces to underscores
SanitizedNames == [name \in {"An Phat", "Bao"} |-> IF name = "Bao" THEN "bao" ELSE "an_phat"]
CollidingNames == [name \in {"An Phat", "an phat"} |-> "an_phat"]

Services ==
    [d \in {"an_phat", "bao"} |->
        [id \in {"hn", "hcm", "new"} |->
            CASE d = "bao" /\ id = "hn" -> "bao-hn"
              [] d = "bao" /\ id = "hcm" -> "bao-hcm"
              [] d = "bao" /\ id = "new" -> "bao-new"
              [] d # "bao" /\ id = "hn" -> "an_phat-hn"
              [] d # "bao" /\ id = "hcm" -> "an_phat-hcm"
              [] d # "bao" /\ id = "new" -> "an_phat-new"]]

AnPhat == Org("An Phat", <<Node("hn", 8081)>>)
Bao == Org("Bao", <<Node("hn", 8082)>>)

Pair == [orgs |-> <<AnPhat, Bao>>, codes |-> <<Token>>]
\* an organization gone, a port moved, the chaincodes forgotten
Codeless == [orgs |-> <<Org("Bao", <<Node("hn", 8083)>>)>>, codes |-> <<>>]
Twice == [orgs |-> <<Bao, Bao>>, codes |-> <<Token>>]
ThreeNetworks == {Pair, Codeless, Twice}
SmallNetworks == {[orgs |-> <<Bao>>, codes |-> <<Token>>]}

CollidingNetworks ==
    {[orgs |-> <<Org("An Phat", <<Node("hn", 8081)>>), Org("an phat", <<Node("hn", 8082)>>)>>,
      codes |-> <<Token>>]}

Limit(b, u, x, w) == [kind \in Kinds |->
    CASE kind = "build" -> b [] kind = "update" -> u [] kind = "extract" -> x [] kind = "workspace" -> w]
Few == Limit(2, 1, 2, 1)
Workspaces == Limit(1, 0, 1, 2)
OneBuild == Limit(1, 0, 0, 0)

Added == Node("new", 8085)
AddedCodes == <<Vote>>
=============================================================================
