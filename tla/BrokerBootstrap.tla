-------------------------- MODULE BrokerBootstrap --------------------------
(***************************************************************************)
(* The entrypoint of the Mosquitto container, which makes the certificates *)
(* that everyone's TLS depends on, one file after the other, in a volume   *)
(* that outlives the container.                                            *)
(*                                                                         *)
(* Of keys and certificates only what belongs together counts.  openssl    *)
(* empties a file before it writes it, so each is made in two steps; the   *)
(* passwords are made anew at each start and nothing depends on them.      *)
(***************************************************************************)
EXTENDS Naturals

CONSTANTS
    Hosts,        \* values of MQTT_CERT_HOST
    NoHost,
    NoCert,
    MaxTroubles   \* bound: stops, changes of host, certificates that age

\* host: its name; paired: it certifies server.key; signed: by ca.key;
\* fresh: for 30 more days.
Certs == [host : Hosts, paired : BOOLEAN, signed : BOOLEAN, fresh : BOOLEAN]

ASSUME BrokerAssumption ==
    /\ Hosts # {} /\ NoHost \notin Hosts
    /\ NoCert \notin Certs
    /\ MaxTroubles \in Nat

VARIABLES
    host,         \* MQTT_CERT_HOST
    ca,           \* ca.key and ca.crt: "none", only the "key", the "pair"
    key,          \* is there a server.key?
    crt,          \* server.crt
    marker,       \* server-host
    at,           \* where the container is
    renewing,     \* history: a renewal has begun and left no marker yet,
    undone,       \*   and the host was changed during such a one
    troubles

files == <<ca, key, crt, marker>>
brokerVars == <<host, files, at, renewing, undone, troubles>>

BrokerTypeOK ==
    /\ host \in Hosts
    /\ ca \in {"none", "key", "pair"}
    /\ key \in BOOLEAN
    /\ crt = NoCert \/ crt \in Certs
    /\ marker \in Hosts \cup {NoHost}
    /\ at \in {"down", "ca", "caCrt", "decide", "key", "keyOut", "sign", "signOut",
               "mark", "load", "serving"}
    /\ renewing \in BOOLEAN /\ undone \in BOOLEAN
    /\ troubles \in 0..MaxTroubles

BrokerInit ==
    /\ host \in Hosts
    /\ ca = "none"
    /\ key = FALSE
    /\ crt = NoCert
    /\ marker = NoHost
    /\ at = "down"
    /\ renewing = FALSE /\ undone = FALSE
    /\ troubles = 0

-----------------------------------------------------------------------------

With(field, b) == IF crt = NoCert THEN crt ELSE [crt EXCEPT ![field] = b]

Follows(from, to) == at = from /\ at' = to /\ UNCHANGED <<host, troubles>>

Boot == Follows("down", "ca") /\ UNCHANGED <<files, renewing, undone>>

\* A CA that is whole is kept, else it is made anew, its key first.
KeepCa ==
    /\ ca = "pair"
    /\ Follows("ca", "decide")
    /\ UNCHANGED <<files, renewing, undone>>

MakeCaKey ==
    /\ ca # "pair"
    /\ Follows("ca", "caCrt")
    /\ ca' = "key"
    /\ crt' = With("signed", FALSE)
    /\ UNCHANGED <<key, marker, renewing, undone>>

MakeCaCrt ==
    /\ Follows("caCrt", "decide")
    /\ ca' = "pair"
    /\ UNCHANGED <<key, crt, marker, renewing, undone>>

\* Mutant of MustRenew: it does not look for whom the certificate is.
MustRenewByDate == ~key \/ crt \notin {c \in Certs : c.fresh}

\* RENEW_SERVER_CERT.
MustRenew == ~key \/ crt \notin {c \in Certs : c.fresh} \/ marker # host

Keep ==
    /\ ~MustRenew
    /\ Follows("decide", "load")
    /\ UNCHANGED <<files, renewing, undone>>

Renew ==
    /\ MustRenew
    /\ Follows("decide", "key")
    /\ UNCHANGED <<files, renewing, undone>>

\* openssl req -keyout server.key
EmptyKey ==
    /\ Follows("key", "keyOut")
    /\ key' = FALSE
    /\ crt' = With("paired", FALSE)
    /\ renewing' = TRUE
    /\ UNCHANGED <<ca, marker, undone>>

\* Mutant of WriteKey: the marker is written before the certificate.
WriteKeyAndMarker ==
    /\ Follows("keyOut", "sign")
    /\ key' = TRUE
    /\ marker' = host
    /\ UNCHANGED <<ca, crt, renewing, undone>>

WriteKey ==
    /\ Follows("keyOut", "sign")
    /\ key' = TRUE
    /\ UNCHANGED <<ca, crt, marker, renewing, undone>>

\* openssl x509 -req -out server.crt
EmptyCrt ==
    /\ Follows("sign", "signOut")
    /\ crt' = NoCert
    /\ UNCHANGED <<ca, key, marker, renewing, undone>>

WriteCrt ==
    /\ Follows("signOut", "mark")
    /\ crt' = [host |-> host, paired |-> TRUE, signed |-> TRUE, fresh |-> TRUE]
    /\ UNCHANGED <<ca, key, marker, renewing, undone>>

Mark ==
    /\ Follows("mark", "load")
    /\ marker' = host
    /\ renewing' = FALSE /\ undone' = FALSE
    /\ UNCHANGED <<ca, key, crt>>

\* mosquitto exits if the key is not that of the certificate.
Load ==
    /\ Follows("load", IF key /\ crt.paired THEN "serving" ELSE "down")
    /\ UNCHANGED <<files, renewing, undone>>

Bootstrap ==
    \/ Boot \/ KeepCa \/ MakeCaKey \/ MakeCaCrt \/ Keep \/ Renew
    \/ EmptyKey \/ WriteKey \/ EmptyCrt \/ WriteCrt \/ Mark \/ Load

-----------------------------------------------------------------------------

Trouble == troubles < MaxTroubles /\ troubles' = troubles + 1

\* The container is killed, between any two steps.
Stop ==
    /\ at # "down"
    /\ Trouble
    /\ at' = "down"
    /\ UNCHANGED <<host, files, renewing, undone>>

\* It is made again with another MQTT_CERT_HOST.
ChangeHost(h) ==
    /\ h # host
    /\ Trouble
    /\ host' = h
    /\ at' = "down"
    /\ undone' = (undone \/ renewing)
    /\ UNCHANGED <<files, renewing>>

\* Fewer than 30 days are left.
Age ==
    /\ crt # NoCert /\ crt.fresh
    /\ Trouble
    /\ crt' = With("fresh", FALSE)
    /\ UNCHANGED <<host, ca, key, marker, at, renewing, undone>>

BrokerNext == Bootstrap \/ Stop \/ Age \/ \E h \in Hosts : ChangeHost(h)

-----------------------------------------------------------------------------

\* The broker serves the certificate of its key, signed by the CA that clients
\* are given, and issued for its host ("Quando MQTT_CERT_HOST muda, o Mosquitto
\* emite automaticamente um novo certificado", README.md:203), wherever earlier
\* starts were cut off.  One case is left out: a host that is changed while a
\* renewal is unfinished, for if it is changed back the marker is right again.
ServedCertificateIsCurrent ==
    at = "serving" =>
        /\ ca = "pair" /\ key
        /\ crt # NoCert /\ crt.paired /\ crt.signed
        /\ crt.host = host \/ undone

\* However often it is stopped between two files, the broker comes up: what a
\* renewal has left half done makes the next start renew.  The same case is
\* left out: the new key then stays with the old certificate, for ever.
BrokerComesUp == at # "serving" ~> (at = "serving" \/ undone)
=============================================================================
