---------------------------- MODULE MC_ScanWriter ---------------------------
(* Collections and queries for checking ScanWriter.                        *)
EXTENDS ScanWriter, TLC

MCIds == {1, 2, 3}
MCVals == {1, 2}
MCFieldVals == {0, 1}

\* Every collection of up to three objects over two values and two field
\* values, none of them expired.
MCCollections == [MCIds -> [val : MCVals, fld : MCFieldVals, exp : {FALSE}] \cup {NONE}]

\* The same, with ids that have expired but are not yet deleted.
MCExpCollections == [MCIds -> [val : MCVals, fld : MCFieldVals, exp : BOOLEAN] \cup {NONE}]

\* Clauses: none, one that rejects fld 0, and one that accepts everything.
MCClauses == {NONE, {1}, {0, 1}}

ScanGlobs == {[kind |-> "all"], [kind |-> "single", pat |-> 2],
              [kind |-> "pattern", pat |-> {1, 3}]}
SearchGlobs == {[kind |-> "all"], [kind |-> "single", pat |-> 1],
                [kind |-> "pattern", pat |-> {2}]}

\* ulimit: LIMIT was given (always, when the limit is not 0); area: the
\* radius or shape of a spatial query, NONE for a NEARBY POINT without one.
SpatialQueriesOf(cmds, outputs, globs, wheres, limits, cursors, areas, ulimits) ==
  {qq \in [cmd : cmds, output : outputs, glob : globs, where : wheres,
           wherein : {NONE}, whereeval : {NONE}, limit : limits, cursor : cursors,
           area : areas, ulimit : ulimits] : qq.limit # 0 => qq.ulimit}

QueriesOf(cmds, outputs, globs, wheres, whereins, whereevals, limits, cursors) ==
  {[qq EXCEPT !.ulimit = (qq.limit # 0)] :
     qq \in [cmd : cmds, output : outputs, glob : globs, where : wheres,
             wherein : whereins, whereeval : whereevals, limit : limits,
             cursor : cursors, area : {NONE}, ulimit : {FALSE}]}

\* KNN (NEARBY POINT with LIMIT and no radius), radius NEARBY, WITHIN and
\* INTERSECTS, and a NEARBY POINT with neither radius nor LIMIT (an error).
MCSpatialQueries ==
  SpatialQueriesOf({"nearby"}, {"ids"}, ScanGlobs, MCClauses, {0, 1, 2}, {0, 1},
                   {NONE}, {TRUE}) \cup
  SpatialQueriesOf({"nearby"}, {"count"}, {[kind |-> "all"]}, MCClauses, {1, 2}, {0},
                   {NONE}, {TRUE}) \cup
  SpatialQueriesOf({"nearby"}, {"ids"}, {[kind |-> "all"], [kind |-> "single", pat |-> 2]},
                   {NONE, {1}}, {1, 2}, {0}, {{1}, {1, 2}}, {TRUE}) \cup
  SpatialQueriesOf({"within", "intersects"}, {"ids"}, ScanGlobs, {NONE, {1}}, {1}, {0, 1},
                   {{2}}, {TRUE}) \cup
  SpatialQueriesOf({"nearby"}, {"ids"}, {[kind |-> "all"]}, {NONE}, {0}, {0},
                   {NONE}, {FALSE})

\* Paging queries: at most one clause kind at a time keeps the set small.
MCPagingQueries ==
  QueriesOf({"scan"}, {"ids", "count"}, ScanGlobs, MCClauses, {NONE}, {NONE},
            {0, 1, 2}, {0, 1}) \cup
  QueriesOf({"scan"}, {"ids"}, ScanGlobs, {NONE}, MCClauses, MCClauses,
            {1, 2}, {0, 2}) \cup
  QueriesOf({"search"}, {"ids", "count"}, SearchGlobs, MCClauses, {NONE},
            {NONE}, {0, 1, 2}, {0, 1}) \cup
  MCSpatialQueries

\* KNN pages of one item over collections with expired ids.
MCKnnExpiredQueries ==
  SpatialQueriesOf({"nearby"}, {"ids"}, {[kind |-> "all"]}, {NONE}, {1}, {0},
                   {NONE}, {TRUE})

\* KNN COUNT with LIMIT 0, from cursor 0.
MCKnnCountQueries ==
  SpatialQueriesOf({"nearby"}, {"count"}, {[kind |-> "all"]}, {NONE}, {0}, {0},
                   {NONE}, {TRUE})

\* COUNT with a WHEREEVAL and no other clause, from cursor 0.
MCCountEvalQueries ==
  QueriesOf({"scan"}, {"count"}, {[kind |-> "all"]}, {NONE}, {NONE}, MCClauses,
            {0}, {0})

\* COUNT with a WHEREIN and no other clause, from cursor 0, on SEARCH.
MCCountWhereinQueries ==
  QueriesOf({"search"}, {"count"}, {[kind |-> "all"]}, {NONE}, MCClauses, {NONE},
            {0}, {0})

\* COUNT with one WHEREEVAL (SCAN) or one WHEREIN (SEARCH), from cursor 0.
MCCountFilterQueries == MCCountEvalQueries \cup MCCountWhereinQueries

\* COUNT scanning (an accept-all WHERE) from a non-zero cursor.
MCCountCursorQueries ==
  QueriesOf({"scan"}, {"count"}, {[kind |-> "all"]}, {{0, 1}}, {NONE}, {NONE},
            {0}, {1, 2})

\* Every COUNT query above: the fast paths' clauses, the scanning cursor
\* and KNN with LIMIT 0.
MCCountQueries ==
  MCCountFilterQueries \cup MCCountCursorQueries \cup MCKnnCountQueries

=============================================================================
