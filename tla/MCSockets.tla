----------------------------- MODULE MCSockets -----------------------------
(***************************************************************************)
(* Small servers for TLC: one or two connection slots, used again.         *)
(***************************************************************************)
EXTENDS Sockets

CONSTANTS c1, c2, s1, s2, direct, proxy

OneConn == {c1}
TwoConns == {c1, c2}
OneAddress == {proxy}
TwoAddresses == {direct, proxy}
OneSession == {s1}
TwoSessions == {s1, s2}

Configs(withIdentities, inAll, ofAddress, trusted) ==
    [identities : {withIdentities}, total : {inAll}, perIp : {ofAddress}, proxies : {trusted}]

\* Behind a proxy, whose address may have two sockets before their upgrade at
\* once: short of places of a principal and of the anonymous, of an address, and
\* in all.  And reached directly, with one such socket an address.
MCServers ==
    Configs(TRUE, 2, 2, {proxy}) \cup Configs(FALSE, 2, 1, {proxy})
        \cup Configs(FALSE, 1, 2, {proxy}) \cup Configs(FALSE, 2, 2, {})
SignedIn == Configs(TRUE, 2, 2, {proxy})
=============================================================================
