----------------------------- MODULE MCObserver -----------------------------
EXTENDS Observer
CONSTANTS c1, c2

\* HTTP/1: a message of len units whose head announces says, sent when message
\* after of the other direction has arrived.
H1(kind, len, says, after) == [kind |-> kind, len |-> len, says |-> says, after |-> after]
Msg(kind, len, after) == H1(kind, len, len, after)

\* HTTP/2 frames.
Frame(kind, len, after, stream, ends, final) ==
  [kind |-> kind, len |-> len, after |-> after, stream |-> stream, ends |-> ends,
   final |-> final, head |-> "regular", overlaps |-> FALSE]
Preface == Frame("preface", 1, 0, 0, FALSE, TRUE)
Setup   == Frame("other", 1, 0, 0, FALSE, TRUE)
Reply(f) == [f EXCEPT !.head = "status"]

\* Two requests at once, with and without a body.
Pipelined ==
  [ver |-> "h1", marked |-> FALSE,
   in  |-> <<Msg("req", 2, 0), Msg("req", 1, 0)>>,
   out |-> <<Msg("resp", 2, 1), Msg("resp", 1, 2)>>]

\* A websocket, closed by the client.
Websocket ==
  [ver |-> "h1", marked |-> FALSE,
   in  |-> <<Msg("upgrade", 1, 0), Msg("frame", 2, 1), Msg("close", 1, 1)>>,
   out |-> <<Msg("switch", 1, 1), Msg("frame", 1, 1), Msg("close", 1, 3)>>]

\* A websocket that the server does not want; the connection goes on.
NoWebsocket ==
  [ver |-> "h1", marked |-> FALSE,
   in  |-> <<Msg("upgrade", 1, 0), Msg("req", 1, 1)>>,
   out |-> <<Msg("resp", 1, 1), Msg("resp", 2, 2)>>]

\* The answer to a HEAD request announces a body that does not come.
HeadRequest ==
  [ver |-> "h1", marked |-> FALSE,
   in  |-> <<Msg("req", 1, 0), Msg("req", 1, 1)>>,
   out |-> <<H1("resp", 1, 2, 1), Msg("resp", 2, 2)>>]

\* HTTP/2: a header block in two frames, a request with a body, its response.
Continued ==
  [ver |-> "h2", marked |-> TRUE,
   in  |-> <<Preface, Frame("headers", 1, 0, 1, FALSE, FALSE),
             Frame("cont", 1, 0, 1, FALSE, TRUE), Frame("data", 1, 0, 1, TRUE, TRUE)>>,
   out |-> <<Setup, Reply(Frame("headers", 1, 4, 1, FALSE, TRUE)),
             Frame("data", 1, 4, 1, FALSE, TRUE), Frame("data", 1, 4, 1, TRUE, TRUE)>>]

\* Two streams whose responses come in the other order.
TwoStreams ==
  [ver |-> "h2", marked |-> TRUE,
   in  |-> <<Preface, Frame("headers", 2, 0, 1, TRUE, TRUE),
             Frame("headers", 1, 0, 3, TRUE, TRUE)>>,
   out |-> <<Reply(Frame("headers", 1, 3, 3, FALSE, TRUE)),
             Reply(Frame("headers", 1, 2, 1, FALSE, TRUE)),
             Frame("data", 1, 2, 1, TRUE, TRUE), Frame("data", 1, 3, 3, TRUE, TRUE)>>]

\* A stream on which the answer begins before the request has ended.
Streaming ==
  [ver |-> "h2", marked |-> TRUE,
   in  |-> <<Preface, Frame("headers", 1, 0, 1, FALSE, TRUE),
             Frame("data", 1, 0, 1, FALSE, TRUE), Frame("data", 1, 2, 1, TRUE, TRUE)>>,
   out |-> <<[Reply(Frame("headers", 1, 2, 1, FALSE, TRUE)) EXCEPT !.overlaps = TRUE],
             [Frame("data", 1, 3, 1, TRUE, TRUE) EXCEPT !.overlaps = TRUE]>>]

\* A header block in three frames.
ThreePieces ==
  [ver |-> "h2", marked |-> TRUE,
   in  |-> <<Preface, Frame("headers", 1, 0, 1, FALSE, FALSE),
             Frame("cont", 1, 0, 1, FALSE, FALSE), Frame("cont", 1, 0, 1, FALSE, TRUE),
             Frame("data", 1, 0, 1, TRUE, TRUE)>>,
   out |-> <<Setup>>]

\* The preface comes when the peek has given up.
MissedPreface ==
  [ver |-> "h2", marked |-> FALSE,
   in  |-> <<Preface, Frame("headers", 1, 0, 1, TRUE, TRUE)>>,
   out |-> <<Setup, Reply(Frame("headers", 1, 2, 1, TRUE, TRUE))>>]

\* A request upgrades the connection to HTTP/2.
UpgradedToH2c ==
  [ver |-> "h1", marked |-> FALSE,
   in  |-> <<Msg("req", 2, 0), Msg("h2", 1, 1)>>,
   out |-> <<Msg("resp", 1, 1), Msg("h2", 1, 1)>>]

\* Nothing is said.
Silent == [ver |-> "h1", marked |-> FALSE, in |-> <<>>, out |-> <<>>]

\* A request and its response.
Short ==
  [ver |-> "h1", marked |-> FALSE,
   in  |-> <<Msg("req", 1, 0)>>,
   out |-> <<Msg("resp", 1, 1)>>]

\* One connection with much to say, or a short and a silent one.
MCConns == {c1, c2}
MCTalks ==
  {(c1 :> t @@ c2 :> None) : t \in {Pipelined, Websocket, NoWebsocket, HeadRequest,
                                    Continued, ThreePieces, TwoStreams,
                                    Streaming, MissedPreface, UpgradedToH2c}}
  \cup {c1 :> Short @@ c2 :> Silent}
=============================================================================
