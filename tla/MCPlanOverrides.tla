-------------------------- MODULE MCPlanOverrides ---------------------------
(* Every combination of up to three fields.                                *)
EXTENDS PlanOverrides

FieldSets == {{}} \cup {{x, y, z} : x, y, z \in DOMAIN Values}

MCConfigs ==
    UNION {{c \in [fields -> UNION {Values[x] : x \in fields}] :
                \A x \in fields : c[x] \in Values[x]} : fields \in FieldSets}
=============================================================================
