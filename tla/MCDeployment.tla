---- MODULE MCDeployment ----
\* Two editions.  The second has the rows of the first file in the opposite order,
\* a malformed row in the second one, and one template more.
EXTENDS Deployment

Row(table, key) == <<table, key>>

MCLines ==
    << << <<Row("priority_matrix", "a"), Row("priority_matrix", "b")>>,
          <<Row("compliance_frameworks", "a"), Row("data_sensitivity_mappings", "a")>>,
          <<>>,
          <<Row("mitigation_categories", "a")>>,
          <<Row("remediation_templates", "a")>> >>,
       << <<Row("priority_matrix", "b"), Row("priority_matrix", "a")>>,
          <<Row("compliance_frameworks", "a"), Row("data_sensitivity_mappings", "a")>>,
          <<>>,
          <<>>,
          <<Row("remediation_templates", "b"), Row("remediation_templates", "a")>> >> >>

MCMalformed == << {}, {Row("data_sensitivity_mappings", "a")} >>
====
