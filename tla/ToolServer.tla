------------------------------ MODULE ToolServer ------------------------------
(***************************************************************************)
(* The loop of the four tool servers of cmd/mcp-servers: one request a     *)
(* line on stdin, one answer each on stdout, in turn.  A request is its    *)
(* method and, of a tool call, the tool and the arguments it gives.        *)
(***************************************************************************)
EXTENDS Naturals, Sequences, FiniteSets

CONSTANTS
    MaxRequests     \* bound: lines a client writes

VARIABLES
    kind,       \* which server this is
    coins,      \* whether the client of CoinGecko could be made
    sent,       \* what the client wrote
    read,       \* how many of them were read
    answers,    \* what was written, each with the number of its request
    server,     \* "reads", "handles", "spins" on a broken stream, or "ended"
    closed      \* the client closed stdin

server_vars == <<kind, coins, sent, read, answers, server, closed>>

Kinds == {"indicators", "risk", "market", "executor"}

-----------------------------------------------------------------------------
(* What tools/list tells: the tools and the arguments they require.        *)

IndicatorsListed ==
    [calculate_rsi |-> {"prices"}, calculate_macd |-> {"prices"}, calculate_bollinger_bands |-> {"prices"},
     calculate_ema |-> {"prices", "period"}, calculate_adx |-> {"high", "low", "close"}]

RiskListed ==
    [calculate_position_size |-> {"win_rate", "avg_win", "avg_loss", "capital", "kelly_fraction"},
     calculate_var |-> {"returns", "confidence_level"},
     check_portfolio_limits |-> {"current_positions", "new_trade", "limits"},
     calculate_sharpe |-> {"returns", "risk_free_rate", "periods_per_year"},
     calculate_drawdown |-> {"equity_curve"}]

\* The tools of CoinGecko are listed with a client only.
MarketListed ==
    LET ofBinance == {"get_price", "get_ticker_24h", "get_order_book"}
        ofCoinGecko == IF coins THEN {"get_market_chart", "get_coin_info"} ELSE {}
    IN  [t \in ofBinance \cup ofCoinGecko |-> IF t \in ofBinance THEN {"symbol"} ELSE {"coin_id"}]

ExecutorListed ==
    [place_market_order |-> {"symbol", "side", "quantity"}, place_limit_order |-> {"symbol", "side", "quantity", "price"},
     cancel_order |-> {"order_id"}, get_order_status |-> {"order_id"},
     start_session |-> {"symbol", "initial_capital"}, stop_session |-> {"final_capital"}, get_session_stats |-> {}]

Listed ==
    CASE kind = "indicators" -> IndicatorsListed [] kind = "risk" -> RiskListed
      [] kind = "market" -> MarketListed [] kind = "executor" -> ExecutorListed

-----------------------------------------------------------------------------
(* The handlers: the arguments each asks for, where a call goes to.         *)

IndicatorsNeed(tool) ==
    CASE tool \in {"calculate_rsi", "calculate_macd", "calculate_bollinger_bands"} -> {"prices"}
      [] tool = "calculate_ema" -> {"prices", "period"}
      [] tool = "calculate_adx" -> {"high", "low", "close"}

\* Every argument a calculation reads has to be there.
RiskNeeds(tool) ==
    CASE tool = "calculate_position_size" -> {"win_rate", "avg_win", "avg_loss", "capital", "kelly_fraction"}
      [] tool = "calculate_var" -> {"returns", "confidence_level"}
      [] tool = "check_portfolio_limits" -> {"current_positions", "new_trade", "limits"}
      [] tool = "calculate_sharpe" -> {"returns", "risk_free_rate", "periods_per_year"}
      [] tool = "calculate_drawdown" -> {"equity_curve"}

MarketNeeds(tool) == IF tool \in {"get_market_chart", "get_coin_info"} THEN {"coin_id"} ELSE {"symbol"}

ExecutorNeeds(tool) ==
    CASE tool = "place_market_order" -> {"symbol", "side", "quantity"}
      [] tool = "place_limit_order" -> {"symbol", "side", "quantity", "price"}
      [] tool \in {"cancel_order", "get_order_status"} -> {"order_id"}
      [] tool = "start_session" -> {"symbol", "initial_capital"}
      [] tool = "stop_session" -> {"final_capital"}
      [] tool = "get_session_stats" -> {}

Needs(tool) ==
    CASE kind = "indicators" -> IndicatorsNeed(tool) [] kind = "risk" -> RiskNeeds(tool)
      [] kind = "market" -> MarketNeeds(tool) [] kind = "executor" -> ExecutorNeeds(tool)

\* Outcomes of a call: a result, an error, or where a number is infinite or none
\* (calculate_rsi of prices that do not move, calculate_sharpe
\* of equal returns, the use of an exposure limit of zero) a value JSON has not.
\* The price falls back to Binance; any source may fail.
CallTool(tool, given) ==
    IF tool \notin DOMAIN Listed \/ ~ Needs(tool) \subseteq given THEN {"error"}
    ELSE {"result", "error"} \cup
         (IF tool \in {"calculate_rsi", "calculate_sharpe", "check_portfolio_limits"} THEN {"unencodable"} ELSE {})

\* A service of CoinGecko is asked for by name even if it is not listed.
HandleRequest(r) ==
    CASE r.method \in {"initialize", "tools/list"} -> {"result"}
      [] r.method = "tools/call" -> IF r.mistyped THEN {"error"} ELSE CallTool(r.tool, r.given)
      [] OTHER -> {"error"}

-----------------------------------------------------------------------------
\* Calls that give all they have to, or all but one.
Calls ==
    UNION {{[method |-> "tools/call", tool |-> t, given |-> Listed[t] \ S, mistyped |-> m] :
                S \in {{}} \cup {{a} : a \in Listed[t]}, m \in BOOLEAN} : t \in DOMAIN Listed}

Lines ==
    {[method |-> m] : m \in {"initialize", "tools/list", "other", "mistypedID", "notJSON"}} \cup
    {[method |-> "tools/call", tool |-> "unknown", given |-> {}, mistyped |-> FALSE]} \cup Calls

ServerInit ==
    /\ kind \in Kinds /\ coins \in BOOLEAN /\ (coins => kind = "market")
    /\ sent = <<>> /\ read = 0 /\ answers = <<>> /\ server = "reads" /\ closed = FALSE

Send(line) ==
    /\ ~ closed /\ Len(sent) < MaxRequests
    /\ sent' = Append(sent, line)
    /\ UNCHANGED <<kind, coins, read, answers, server, closed>>

Close ==
    /\ ~ closed
    /\ closed' = TRUE
    /\ UNCHANGED <<kind, coins, sent, read, answers, server>>

\* Whether the whole request has types of its own for its parameters.
TypedParams == kind \in {"risk", "executor"}
Undecodable(line) == line.method = "mistypedID" \/ (line.method = "tools/call" /\ line.mistyped /\ TypedParams)

\* The decoder goes on after a value of another type, but reports the same
\* error for ever once it met one that is not JSON.
ReadRequest ==
    /\ server = "reads" /\ read < Len(sent)
    /\ read' = read + 1
    /\ server' = LET line == sent[read']
                 IN  CASE line.method = "notJSON" -> "spins" [] Undecodable(line) -> "reads" [] OTHER -> "handles"
    /\ UNCHANGED <<kind, coins, sent, answers, closed>>

\* The answer is written before the next request is read; one that cannot be
\* encoded ends the server, with nothing written.
Respond ==
    /\ server = "handles"
    /\ \E outcome \in HandleRequest(sent[read]) :
          IF outcome = "unencodable" THEN server' = "ended" /\ UNCHANGED answers
          ELSE /\ answers' = Append(answers, [request |-> read, outcome |-> outcome])
               /\ server' = "reads"
    /\ UNCHANGED <<kind, coins, sent, read, closed>>

EndOfInput ==
    /\ server = "reads" /\ read = Len(sent) /\ closed
    /\ server' = "ended"
    /\ UNCHANGED <<kind, coins, sent, read, answers, closed>>

ServerNext == (\E line \in Lines : Send(line)) \/ Close \/ ReadRequest \/ Respond \/ EndOfInput

\* The server is one loop that never blocks but on its input.
ServerSpec == ServerInit /\ [][ServerNext]_server_vars /\ WF_server_vars(ReadRequest \/ Respond \/ EndOfInput)

-----------------------------------------------------------------------------
\* Every request that was read and could be decoded is answered once, in order,
\* but for the one in hand and the one whose answer ended the server.
AnsweredInOrder ==
    LET answerable == {i \in 1 .. read : ~ Undecodable(sent[i]) /\ sent[i].method # "notJSON"}
        unanswered == answerable \ {answers[i].request : i \in DOMAIN answers}
    IN  /\ \A i \in DOMAIN answers : answers[i].request \in answerable
        /\ \A i, j \in DOMAIN answers : i < j => answers[i].request < answers[j].request
        /\ unanswered \subseteq IF server \in {"handles", "ended"} THEN {read} ELSE {}
        /\ server = "handles" \/ (server = "ended" /\ ~ closed) => unanswered # {}

\* A tool that answers is one that tools/list tells of, and was given all the
\* arguments it is told to require.
ToolsTellTheirArguments ==
    \A i \in DOMAIN answers :
        LET r == sent[answers[i].request]
        IN  r.method = "tools/call" /\ answers[i].outcome = "result" =>
                r.tool \in DOMAIN Listed /\ Listed[r.tool] \subseteq r.given

\* A server is lost only to a line that is not JSON or to an answer that cannot
\* be encoded; otherwise it answers all there is to read and ends with its input.
EndsWithItsInput ==
    closed ~> \/ server = "ended"
              \/ \E i \in 1 .. read : sent[i].method = "notJSON"
=============================================================================
