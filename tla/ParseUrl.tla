------------------------------ MODULE ParseUrl ------------------------------
(***************************************************************************)
(* parse_url() of src/url.cpp on a URL that Boost.URL has taken apart.     *)
(* Ports are numbers written without leading zeros; Boost.URL lets nothing *)
(* but digits pass.  A text parse_uri() does not take apart, a relative    *)
(* reference for one, is a URL without a scheme.  User information and     *)
(* fragments are left out.                                                 *)
(***************************************************************************)
EXTENDS Integers

NoPort == -2      \* no colon after the host
EmptyPort == -1   \* a colon and nothing after it

Url(Names, Paths) ==
    [scheme : STRING, host : Names, ipv6 : BOOLEAN, port : Int, path : Paths]

DefaultPort(scheme) == IF scheme = "http" THEN 80 ELSE 443

\* What a port number may be: 0, the wildcard, is refused like one too large.
Ports == 1..65535

\* Why a URL is refused, if it is: because it is none, for its scheme, for the rest.
Parsed(u) == u.scheme # ""
Supported(u) == u.scheme \in {"http", "https"}
ValidPort(u) == u.port = NoPort \/ u.port \in Ports
UrlErrors(u) ==
    IF Parsed(u) /\ ~Supported(u) THEN {"unsupported_scheme"}
    ELSE IF ~Parsed(u) \/ u.host = "" \/ ~ValidPort(u) THEN {"invalid_url"} ELSE {}
Accepted(u) == UrlErrors(u) = {}

\* The endpoint of an accepted URL, and what its Host field says: the port only
\* when it is not the scheme's own, an IPv6 address in brackets.
PortOf(u) == IF u.port = NoPort THEN DefaultPort(u.scheme) ELSE u.port
HostHeader(u) ==
    [name |-> u.host, brackets |-> u.ipv6,
     port |-> IF PortOf(u) = DefaultPort(u.scheme) THEN NoPort ELSE PortOf(u)]
=============================================================================
