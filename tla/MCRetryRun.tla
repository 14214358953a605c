---------------------------- MODULE MCRetryRun -----------------------------
(* TLC instances of RetryRun: three locations on two hosts and three that      *)
(* parse_url() refuses, two attempts each, one redirect or two.              *)
EXTENDS RetryRun, TLC

HomeUrl == [scheme |-> "http", host |-> "a", ipv6 |-> FALSE, port |-> NoPort, path |-> "/"]
OtherHost == [HomeUrl EXCEPT !.scheme = "https", !.host = "b", !.ipv6 = TRUE, !.port = 65535]
SameHost == [HomeUrl EXCEPT !.port = 1, !.path = ""]
AllUrls == {HomeUrl, OtherHost, SameHost,
            [HomeUrl EXCEPT !.scheme = "ftp"], [HomeUrl EXCEPT !.scheme = ""],
            [HomeUrl EXCEPT !.port = 65536]}
OneUrl == {HomeUrl}

Base == [method |-> "get", maxAttempts |-> 2, maxRedirects |-> 2,
         retryNonIdempotent |-> FALSE, retryTimeouts |-> TRUE, retryConnection |-> TRUE,
         retryStatus |-> RetryClasses, follow |-> TRUE, treatNon2xx |-> TRUE]

\* Each method with the defaults, and each option changed by itself.
AllOptions ==
    {[Base EXCEPT !.method = m, !.retryNonIdempotent = b] : m \in Methods, b \in BOOLEAN}
    \cup {[Base EXCEPT !.maxAttempts = 0], [Base EXCEPT !.maxAttempts = 1],
          [Base EXCEPT !.maxRedirects = 0], [Base EXCEPT !.maxRedirects = 1],
          [Base EXCEPT !.retryTimeouts = FALSE], [Base EXCEPT !.retryConnection = FALSE],
          [Base EXCEPT !.retryStatus = {}], [Base EXCEPT !.follow = FALSE],
          [Base EXCEPT !.treatNon2xx = FALSE]}
Defaults == {Base}
ShortBackoffs == {0, 1}
SomeWishes == {0, 1}
LongestWish == {4}
=============================================================================
