----------------------------- MODULE MCUrsaNode -----------------------------
(* UrsaNode for TLC: no configuration file, one of an older version with   *)
(* an identity of its own, and one whose domain is not a Multiaddr.        *)
EXTENDS UrsaNode

MCTexts ==
    {EmptyMap,
     [identity |-> "custom", provider_domain |-> "custom", comment |-> "custom"],
     [provider_domain |-> "bad"]}
=============================================================================
