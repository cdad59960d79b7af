----------------------------- MODULE MCSupport -----------------------------
(* An instance of Support for TLC: two requests at once, of a user whose   *)
(* password is changed, or of anybody on the local network; who may        *)
(* publish is taken the path away. Tokens are signed with one key or the   *)
(* other.                                                                  *)
EXTENDS Support

CONSTANTS q1, q2

Permission(action, path) == [action |-> action, path |-> path]
Local == [user |-> "any", pass |-> "", ips |-> {"local"},
          permissions |-> {Permission("read", Everywhere)}]
User(pass, path) == [user |-> "u", pass |-> pass, ips |-> {},
                     permissions |-> {Permission("publish", path), Permission("api", {})}]
Ask(action, pass, verify, key, claims) ==
    [action |-> action, path |-> "cam", user |-> "u", pass |-> pass, ip |-> "remote",
     verify |-> verify, key |-> key, claims |-> claims]
MayPublish == {Permission("publish", {"cam"})}

UserVersions == <<{Local, User("old", {"cam"})}, {Local, User("new", {"other"})}>>
Excluded == {Permission("read", {"cam"})}
Questions ==
    {Ask("publish", "old", "none", 1, MayPublish),
     Ask("publish", "new", "good", 2, MayPublish), Ask("read", "old", "bad", 0, {})}
=============================================================================
