------------------------------- MODULE MCPpp -------------------------------
(* Instances of Ppp for TLC: what the guest may send.                       *)
EXTENDS Ppp

Msg(proto, code, id, opts) ==
  [proto |-> proto, code |-> code, id |-> id, opts |-> opts]

(* Requests to be acknowledged, Nak'd, rejected and discarded; magic number
   Alternative(Magic) is what a Nak proposes, 7 is the address of nobody.               *)
Requests ==
  {Msg("LCP", "CONF_REQ", 0, opts) :
     opts \in {{<<"MAGIC", Alternative(Magic)>>}, {<<"MAGIC", Magic>>}, {<<"AUTH", 0>>},
               {<<"TRUNCATED", 0>>}}}
  \cup {Msg("IPCP", "CONF_REQ", 0, opts) :
           opts \in {{<<"ADDRESS", RemoteIp>>}, {<<"ADDRESS", 7>>}}}

Answers ==
  {Msg(proto, "CONF_ACK", id, {}) : proto \in Protocols, id \in Ids}
  \cup {Msg("LCP", "CONF_NAK", id, {<<"MAGIC", Alternative(Magic)>>}) : id \in Ids}
  \cup {Msg("LCP", "CONF_REJ", id, {<<"MAGIC", Magic>>}) : id \in Ids}
  \cup {Msg("IPCP", "CONF_REJ", id, {<<"ADDRESS", 0>>}) : id \in Ids}

Others ==
  {Msg(proto, code, 0, {}) : proto \in Protocols,
                             code \in {"TERM_REQ", "TERM_ACK", "UNKNOWN"}}
  \cup {Msg("LCP", "ECHO_REQ", 0, {}), Msg("OTHER", "DATAGRAM", 0, {})}

AddressNaks == {Msg("IPCP", "CONF_NAK", id, {<<"ADDRESS", 7>>}) : id \in Ids}

LinkRejects == {Msg("LCP", "CODE_REJ", 0, {})}
NetworkRejects == {Msg("IPCP", "CODE_REJ", 0, {})}

(* Fewer inputs, for the longer behaviours.                                 *)
PlainGuest ==
  {Msg("LCP", "CONF_REQ", 0, {o}) : o \in {<<"MAGIC", Alternative(Magic)>>, <<"AUTH", 0>>}}
  \cup {Msg("IPCP", "CONF_REQ", 0, {<<"ADDRESS", RemoteIp>>}),
        Msg("LCP", "TERM_REQ", 0, {}), Msg("LCP", "TERM_ACK", 0, {})}
  \cup {Msg(proto, "CONF_ACK", id, {}) : proto \in Protocols, id \in Ids}

ClosingGuest ==
  PlainGuest \cup LinkRejects
  \cup {Msg("IPCP", "CONF_REJ", id, {<<"ADDRESS", 0>>}) : id \in Ids}
  \cup {Msg("IPCP", "CONF_REQ", 0, {<<"ADDRESS", 7>>})}
AnyGuest == Requests \cup Answers \cup Others
RejectingGuest == AnyGuest \cup LinkRejects
NakingGuest == AnyGuest \cup AddressNaks
AnyRejectingGuest == RejectingGuest \cup NetworkRejects
EveryGuest == AnyRejectingGuest \cup AddressNaks
=============================================================================
