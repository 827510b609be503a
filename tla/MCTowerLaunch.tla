--------------------------- MODULE MCTowerLaunch ---------------------------
\* TowerLaunch for TLC: settings whose edit takes a vault credential and the
\* execution environment away and changes the static credentials and the groups.
EXTENDS TowerLaunch

MCConfig ==
    <<[vaults |-> {"vault"}, credentials |-> {"key", "unknown"}, groups |-> {"east"},
       actionGroups |-> [a \in Actions |-> IF a \in Provisions THEN {} ELSE {"west"}],
       controlPlane |-> "controller", image |-> TRUE],
      [vaults |-> {}, credentials |-> {"cloud"}, groups |-> {"east", "unknown"},
       actionGroups |-> [a \in Actions |-> {}],
       controlPlane |-> "tower", image |-> TRUE]>>

MCStatic == {"key", "cloud", "east", "west"}
=============================================================================
