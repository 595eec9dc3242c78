-------------------------- MODULE MCHttpConnection --------------------------
(* Small instances of HttpConnection for TLC.                               *)
EXTENDS HttpConnection

Get(page, headers) ==
  [method |-> "GET", page |-> page, version |-> "1.1", headers |-> headers,
   length |-> 0, form |-> [username |-> "nobody"]]

Post(page, headers, form) ==
  [method |-> "POST", page |-> page, version |-> "1.1", headers |-> headers,
   length |-> 2, form |-> form]

KeepAlive == <<"Connection", "keep-alive">>
Type == <<"Content-Type", "urlencoded">>
Length == <<"Content-Length", 2>>
Login(password) == [username |-> "admin", password |-> password]

\* A line that is no request, with headers after it
Malformed == [Get("page", <<KeepAlive>>) EXCEPT !.method = "?"]

BadHeader == <<"?", "?">>

\* Good and bad logins, a POST without a type or with a malformed form, pages
\* that are there, missing or forbidden, requests that end the connection
MCRequests ==
  {Get("/", <<KeepAlive>>), Get("page", <<>>), Get("nowhere", <<KeepAlive>>),
   Get("secret", <<>>), Get("page", <<BadHeader, KeepAlive>>), Malformed,
   Post("login", <<KeepAlive, Type, Length>>, Login("123456")),
   Post("login", <<Length, Type, KeepAlive>>, Login("guess")),
   Post("login", <<Length, Type, KeepAlive>>, <<>>),
   Post("register", <<Length, KeepAlive>>, Login("123456"))}

ASSUME ConformAssumption == \A r \in Requests : Conforms(r)
=============================================================================
