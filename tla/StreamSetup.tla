------------------------------ MODULE StreamSetup ------------------------------
(***************************************************************************)
(* How a DoH connection is made: DohTransport::connect of crates/dns/src/  *)
(* transport/doh.rs down to connect_tls, connect_tcp and check_alpn of     *)
(* crates/transport and the HTTP/2 handshake of crates/http/src/h2.rs.     *)
(* DoT does the same without the template and the last step.  The actor    *)
(* bounds the whole by one timeout.                                        *)
(*                                                                         *)
(* Of what is written only the kind is kept: the PROXY v2 header, the TLS  *)
(* ClientHello, the HTTP/2 preface.                                        *)
(***************************************************************************)
EXTENDS Sequences, Naturals

VARIABLES
    target,     \* the ConnectTarget, as build_load_config may have made it
    stage,      \* the next thing connect does
    alpn,       \* what the peer has negotiated: "own", "other" or "none"
    wire        \* what has been written, in order

setup == <<target, stage, alpn, wire>>

\* proxy: none, or a pair of addresses of one IP family or of two.
Targets == [template : BOOLEAN, tls : BOOLEAN, sni : BOOLEAN, relaxed : BOOLEAN,
            proxy : {"none", "same", "mixed"}]

SetupTypeOK ==
    /\ target \in Targets
    /\ stage \in {"template", "tls_config", "tcp", "proxy", "flush", "server_name",
                  "handshake", "alpn", "h2", "open", "failed"}
    /\ alpn \in {"unknown", "own", "other", "none"}
    /\ wire \in Seq({"proxy", "hello", "preface"})

SetupInit ==
    /\ target \in Targets
    /\ stage = "template"
    /\ alpn = "unknown"
    /\ wire = <<>>

\* From one stage to the next, if the condition holds.
Check(from, to, ok) ==
    /\ stage = from
    /\ stage' = IF ok THEN to ELSE "failed"
    /\ UNCHANGED <<target, alpn, wire>>

\* Prepared::from_template; then the TLS configuration must be there.
ParseTemplate == Check("template", "tls_config", target.template)
FindTlsConfig == Check("tls_config", "tcp", target.tls)

ConnectTcp ==
    Check("tcp", IF target.proxy = "none" THEN "server_name" ELSE "proxy", TRUE)

\* ProxyHeader::encode: one family byte for both addresses.
Encodes(p) == p = "same"

WriteProxy ==
    /\ stage = "proxy"
    /\ IF Encodes(target.proxy) THEN stage' = "flush" /\ wire' = Append(wire, "proxy")
       ELSE stage' = "failed" /\ UNCHANGED wire
    /\ UNCHANGED <<target, alpn>>

FlushProxy == Check("flush", "server_name", TRUE)

\* The name is looked at only now, with the socket connected.
ServerName == Check("server_name", "handshake", target.sni)

Handshake ==
    /\ stage = "handshake"
    /\ stage' = "alpn"
    /\ wire' = Append(wire, "hello")
    /\ alpn' \in {"own", "other", "none"}
    /\ UNCHANGED target

\* ... relaxed takes whatever protocol the peer chose.
AlpnAccepted_AnyIfRelaxed == alpn = "own" \/ target.relaxed

AlpnAccepted == alpn = "own" \/ (alpn = "none" /\ target.relaxed)

CheckAlpn == Check("alpn", "h2", AlpnAccepted)

HandshakeH2 ==
    /\ stage = "h2"
    /\ stage' = "open"
    /\ wire' = Append(wire, "preface")
    /\ UNCHANGED <<target, alpn>>

\* An I/O error where connect awaits, or the actor's timeout.
SetupFails ==
    /\ stage \in {"tcp", "proxy", "flush", "handshake", "h2"}
    /\ stage' = "failed"
    /\ UNCHANGED <<target, alpn, wire>>

SetupNext ==
    \/ ParseTemplate \/ FindTlsConfig \/ ConnectTcp \/ WriteProxy \/ FlushProxy
    \/ ServerName \/ Handshake \/ CheckAlpn \/ HandshakeH2 \/ SetupFails

-------------------------------------------------------------------------------
\* The PROXY header, if there is one, is the very first thing on the wire, and a
\* header that cannot be encoded lets nothing out; HTTP/2 is spoken only to a peer
\* that negotiated it, or to one that negotiated nothing if that is allowed.
PreambleFirst ==
    LET said(x) == \E k \in DOMAIN wire : wire[k] = x IN
    /\ wire # <<>> /\ target.proxy # "none" => wire[1] = "proxy"
    /\ target.proxy = "none" => ~said("proxy")
    /\ target.proxy = "mixed" => wire = <<>>
    /\ said("preface") => alpn = "own" \/ (alpn = "none" /\ target.relaxed)
===============================================================================
